---- MODULE Spec2Model ----
(***************************************************************************)
(* A model of the flight-search application's search-and-fallback         *)
(* pipeline: the retry executor apiRequestWithRetry, the error classifier  *)
(* handleApiError, the mock-fallback wrapper withMockFallback, the         *)
(* exported API functions of services/flightApi.ts, the search context     *)
(* (context/SearchContext.tsx) and the health prober checkApiHealth.       *)
(*                                                                         *)
(* Every asynchronous invocation is a record of the variable `calls`; its  *)
(* suspension points (a network request in flight, a backoff timer, a      *)
(* settled promise whose continuation has not run yet) are the values of   *)
(* its pc, and the environment (the network) picks each response.          *)
(***************************************************************************)
EXTENDS Integers, Sequences, FiniteSets, TLC

VARIABLES
    RAPID_API_KEY,      \* envConfig.ts: the build-time API key string
    mockModule,         \* "loaded" once import('../data/flights') has resolved
    calls,              \* the asynchronous invocations, by call id
    order,              \* the call ids in the order the calls were started
    searchParams,       \* SearchContext state
    flights,
    isLoading,
    error,
    filters,
    sortOption,
    panel,              \* the last call of the filters: "none", "setFilters", "clearFilters"
    cachedHealthCheck,  \* apiStatus: the module-level cache slot
    now,                \* Date.now(), in milliseconds
    probes,             \* health probes issued so far (network requests)
    health,             \* the checkApiHealth invocations, by id
    input,              \* the state of one AutocompleteInput and of its hooks
    resultsPage,        \* the Results page: location.state and the visits so far
    appStatus           \* AppStatusProvider: health, checks in flight, interval

vars == <<RAPID_API_KEY, mockModule, calls, order, searchParams, flights, isLoading, error,
          filters, sortOption, panel, cachedHealthCheck, now, probes, health, input,
          resultsPage, appStatus>>

ctxVars == <<searchParams, flights, isLoading, error, filters, sortOption, panel>>
healthVars == <<cachedHealthCheck, now, probes, health>>

(***************************************************************************)
(* Bounds of the model.                                                    *)
(***************************************************************************)
MaxCalls == 2          \* concurrent/sequential invocations tracked
MaxRetriesBound == 2   \* largest maxRetries a caller of the retry executor passes
MaxTicks == 6          \* clock ticks of one minute the health model runs for
MaxHealthCalls == 3    \* invocations of checkApiHealth tracked
MaxKeys == 3           \* keystrokes typed into the airport input

CallIds == 1..MaxCalls

Max(a, b) == IF a >= b THEN a ELSE b
Min(a, b) == IF a <= b THEN a ELSE b

(***************************************************************************)
(* JavaScript values thrown and caught.  An Error object carries its class, *)
(* its name and message, and whether it has a `status` property.           *)
(***************************************************************************)
NoError == [isError |-> FALSE, type |-> "none", name |-> "", message |-> "",
            hasStatus |-> FALSE, status |-> 0]

MkError(type, name, message) ==
    [isError |-> TRUE, type |-> type, name |-> name, message |-> message,
     hasStatus |-> FALSE, status |-> 0]

WithStatus(e, s) == [e EXCEPT !.hasStatus = TRUE, !.status = s]

\* A thrown value that is no Error object: a string (type "string", the text in
\* message) or a plain object (type "object").
NonError(type, message) ==
    [isError |-> FALSE, type |-> type, name |-> "", message |-> message,
     hasStatus |-> FALSE, status |-> 0]

MSG_NO_KEY ==
    "API key is not configured. Please set VITE_RAPIDAPI_KEY in your .env file. The app will use mock data for development."
MSG_MISSING_PARAMS ==
    "Missing required parameters: originSkyId, destinationSkyId, originEntityId, destinationEntityId. Please select airports from autocomplete."
MSG_EMPTY == "Empty API response"
MSG_NO_AIRPORTS == "No airports returned from API"
MSG_CALENDAR_PARSE == "Failed to parse price calendar response"
MSG_FETCH == "Failed to fetch"
MSG_IMPORT == "Failed to fetch dynamically imported module"
MSG_JSON == "Unexpected token < in JSON at position 0"
MSG_INVALID_TIME == "Invalid time value"
MSG_CALENDAR_ARGS == "Origin, destination, and fromDate are required"
MSG_LAT_LNG_TYPE == "Latitude and longitude must be valid numbers"
MSG_LAT_RANGE == "Latitude must be between -90 and 90"
MSG_LNG_RANGE == "Longitude must be between -180 and 180"
MSG_SEARCH_FAILED == "Failed to search flights"

StatusText(s) ==
    CASE s = 400 -> "Bad Request"
      [] s = 401 -> "Unauthorized"
      [] s = 402 -> "Payment Required"
      [] s = 403 -> "Forbidden"
      [] s = 404 -> "Not Found"
      [] s = 429 -> "Too Many Requests"
      [] s = 500 -> "Internal Server Error"
      [] s = 502 -> "Bad Gateway"
      [] s = 503 -> "Service Unavailable"
      [] s = 504 -> "Gateway Timeout"
      [] OTHER -> ""

StatusDigits(s) ==
    CASE s = 400 -> "400" [] s = 401 -> "401" [] s = 402 -> "402"
      [] s = 403 -> "403" [] s = 404 -> "404" [] s = 429 -> "429"
      [] s = 500 -> "500" [] s = 502 -> "502" [] s = 503 -> "503"
      [] s = 504 -> "504" [] s = 180 -> "180" [] OTHER -> "000"

\* flightApi.ts apiRequest: `API request failed: ${status} ${statusText}`
HttpMessage(s) == "API request failed: " \o StatusDigits(s) \o " " \o StatusText(s)

HttpStatuses == {400, 401, 402, 403, 404, 429, 500, 502, 503, 504}

\* The non-2xx statuses the modelled network answers with.
NetStatuses == {403, 404, 429, 500, 503}

(***************************************************************************)
(* utils/handleApiError.ts.  String.includes and the regular expression    *)
(* /\b(\d{3})\b/ are tabulated for the messages the program produces.       *)
(***************************************************************************)
\* The message of checkServer for a health check answered with 429.
MSG_RATE_LIMITED == "Rate limit exceeded (429), using mock data - health checks paused"

IncludesTable ==
    { <<MSG_RATE_LIMITED, "Rate limit exceeded">>,
      <<MSG_RATE_LIMITED, "429">>,
      <<MSG_FETCH, "fetch">>,
      <<MSG_IMPORT, "fetch">>,
      <<MSG_JSON, "at ">>,
      <<HttpMessage(504), "Timeout">>,
      <<HttpMessage(401), "Unauthorized">>,
      <<HttpMessage(403), "Forbidden">>,
      <<HttpMessage(404), "Not Found">>,
      <<HttpMessage(429), "Too Many Requests">>,
      <<HttpMessage(500), "Internal Server Error">>,
      <<HttpMessage(502), "Bad Gateway">>,
      <<HttpMessage(503), "Service Unavailable">> }

Includes(m, sub) == <<m, sub>> \in IncludesTable

\* The first three-digit number standing alone in m, or 0 when there is none.
ThreeDigit(m) ==
    IF \E s \in HttpStatuses : m = HttpMessage(s)
    THEN CHOOSE s \in HttpStatuses : m = HttpMessage(s)
    ELSE IF m = MSG_LNG_RANGE THEN 180 ELSE 0

MSG_UNEXPECTED == "An unexpected error occurred. Please try again later."
MSG_NETWORK == "Network error. Please check your internet connection and try again."
MSG_TIMEOUT == "Request timeout. Please try again."
MSG_ABORT == "Request was cancelled. Please try again."

getHttpErrorMessage(status, statusText) ==
    CASE status = 400 -> "Invalid request. Please check your search parameters."
      [] status = 401 -> "Authentication failed. Please check your API key."
      [] status = 403 -> "Access denied. Please check your API subscription."
      [] status = 404 -> "Requested resource not found."
      [] status = 408 -> "Request timeout. Please try again."
      [] status = 429 -> "Rate limit exceeded. Please wait and retry."
      [] status = 500 -> "Server error. Try again later."
      [] status = 502 -> "Bad gateway. The server is temporarily unavailable."
      [] status = 503 -> "Service unavailable. Please try again later."
      [] status = 504 -> "Gateway timeout. Please try again."
      [] OTHER -> IF statusText # ""
                  THEN "Error " \o StatusDigits(status) \o ": " \o statusText
                  ELSE "An error occurred (Status: " \o StatusDigits(status)
                       \o "). Please try again."

\* No value of the model is a fetch Response object, so the first branch of
\* the source (error instanceof Response) is never taken.
handleApiError(e) ==
    LET m == e.message IN
    IF e.isError
    THEN CASE Includes(m, "fetch") \/ Includes(m, "Network") -> MSG_NETWORK
           [] Includes(m, "timeout") \/ Includes(m, "Timeout") -> MSG_TIMEOUT
           [] Includes(m, "abort") \/ Includes(m, "Abort") -> MSG_ABORT
           [] ThreeDigit(m) # 0 -> getHttpErrorMessage(ThreeDigit(m), "")
           [] Includes(m, "Unauthorized") ->
                "Authentication failed. Please check your API key."
           [] Includes(m, "Forbidden") ->
                "Access denied. Please check your API subscription."
           [] Includes(m, "Not Found") ->
                "Requested resource not found. Please check your search parameters."
           [] Includes(m, "Too Many Requests") ->
                "Rate limit exceeded. Please wait and retry."
           [] Includes(m, "Internal Server Error") -> "Server error. Try again later."
           [] Includes(m, "Bad Gateway") \/ Includes(m, "Service Unavailable") ->
                "Service temporarily unavailable. Please try again later."
           [] OTHER -> IF m # "" /\ Len(m) < 150 /\ ~Includes(m, "at ")
                       THEN m
                       ELSE MSG_UNEXPECTED
    ELSE IF e.type = "string"
         THEN (IF Len(m) < 150 THEN m ELSE "An error occurred. Please try again.")
         ELSE MSG_UNEXPECTED

(***************************************************************************)
(* utils/apiRetry.ts                                                       *)
(***************************************************************************)
DEFAULT_MAX_RETRIES == 2
DEFAULT_RETRYABLE == {500, 502, 503, 504}
DEFAULT_CONFIG == [maxRetries |-> DEFAULT_MAX_RETRIES,
                   retryableStatusCodes |-> DEFAULT_RETRYABLE]

\* A property that is present holds a number in the model, so the source's
\* `status === undefined` branch (retry) is the hasStatus = FALSE case below.
\* isRetryableError without its rule for rate limits: status 429 is retried.
isRetryableError_retries429(e, retryableStatusCodes) ==
    IF e.isError /\ e.type = "TypeError" /\ Includes(e.message, "fetch")
    THEN TRUE
    ELSE IF e.isError /\ e.hasStatus
         THEN IF e.status >= 400 /\ e.status <= 403 THEN FALSE
              ELSE IF e.status = 429 THEN TRUE
              ELSE e.status \in retryableStatusCodes
         ELSE TRUE

\* isRetryableError consulting the supplied list before its rule for client
\* errors and rate limits.
isRetryableError_listFirst(e, retryableStatusCodes) ==
    IF e.isError /\ e.type = "TypeError" /\ Includes(e.message, "fetch")
    THEN TRUE
    ELSE IF e.isError /\ e.hasStatus
         THEN IF e.status \in retryableStatusCodes THEN TRUE
              ELSE IF e.status >= 400 /\ e.status <= 403 THEN FALSE
              ELSE IF e.status = 429 THEN FALSE
              ELSE FALSE
         ELSE TRUE

isRetryableError(e, retryableStatusCodes) ==
    IF e.isError /\ e.type = "TypeError" /\ Includes(e.message, "fetch")
    THEN TRUE
    ELSE IF e.isError /\ e.hasStatus
         THEN IF e.status >= 400 /\ e.status <= 403 THEN FALSE
              ELSE IF e.status = 429 THEN FALSE
              ELSE e.status \in retryableStatusCodes
         ELSE TRUE

\* RetryDecision without the check of isRetryableError: every error is
\* retried while attempts remain.
RetryDecision_retriesAll(attempt, maxRetries, e, retryableStatusCodes) ==
    IF attempt >= maxRetries THEN "throw" ELSE "retry"

\* The decision the catch block of apiRequestWithRetry takes for the error of
\* attempt number `attempt`: wait and retry, or leave the loop and throw.
RetryDecision(attempt, maxRetries, e, retryableStatusCodes) ==
    IF attempt >= maxRetries THEN "throw"
    ELSE IF ~isRetryableError(e, retryableStatusCodes) THEN "throw"
    ELSE "retry"


(***************************************************************************)
(* data/flights.ts: the mock route table.                                  *)
(***************************************************************************)
TwoDigitTable ==
    << "00", "01", "02", "03", "04", "05", "06", "07", "08", "09",
       "10", "11", "12", "13", "14", "15", "16", "17", "18", "19",
       "20", "21", "22", "23", "24", "25", "26", "27", "28", "29",
       "30", "31", "32", "33", "34", "35", "36", "37", "38", "39",
       "40", "41", "42", "43", "44", "45", "46", "47", "48", "49",
       "50", "51", "52", "53", "54", "55", "56", "57", "58", "59" >>

\* n.toString().padStart(2, '0') for 0 <= n <= 59
PadStart2(n) == TwoDigitTable[n + 1]

FormatHHMM(h, m) == PadStart2(h) \o ":" \o PadStart2(m)

MockAirlines ==
    << "American Airlines", "Delta Airlines", "United Airlines", "JetBlue",
       "Southwest", "Alaska Airlines", "Spirit Airlines", "Frontier Airlines",
       "British Airways", "Lufthansa", "Air France", "Japan Airlines",
       "Emirates", "Singapore Airlines" >>

MockDepartureHours == << 6, 8, 10, 12, 14, 16, 18, 20 >>

\* Math.round(basePrice * priceMultiplier * timeMultiplier), in IEEE doubles,
\* for the three (stops, time) classes of the eight generated flights:
\* i < 4 (non-stop, 1.15), i = 4, 5 (one stop, 0.85 * 1.0), i = 6, 7 (0.85 * 0.9).
MockPriceTable(basePrice) ==
    CASE basePrice = 385 -> << 443, 327, 295 >>
      [] basePrice = 420 -> << 483, 357, 321 >>
      [] basePrice = 450 -> << 518, 383, 344 >>
      [] basePrice = 650 -> << 747, 553, 497 >>
      [] basePrice = 799 -> << 919, 679, 611 >>
      [] basePrice = 750 -> << 862, 638, 574 >>
      [] basePrice = 480 -> << 552, 408, 367 >>
      [] basePrice = 590 -> << 679, 502, 451 >>
      [] basePrice = 280 -> << 322, 238, 214 >>
      [] basePrice = 250 -> << 288, 213, 191 >>
      [] basePrice = 580 -> << 667, 493, 444 >>

DigitText(n) == << "1", "2", "3", "4", "5", "6", "7", "8" >>[n]

\* A route of the table: origin, destination, base price, base duration (its
\* text and its hours and minutes).
Route(o, d, p, text, h, m) ==
    [origin |-> o, destination |-> d, basePrice |-> p, baseDuration |-> text,
     hours |-> h, mins |-> m]

\* The flight with index i = k - 1 of generateMockFlightsForRoute.
MockFlight(r, k) ==
    LET i == k - 1
        stops == IF (i \div 4) % 2 = 0 THEN 0 ELSE 1
        depH == MockDepartureHours[(i % 8) + 1]
        total == depH * 60 + r.hours * 60 + r.mins
        prices == MockPriceTable(r.basePrice)
    IN [id |-> r.origin \o "-" \o r.destination \o "-" \o DigitText(k),
        airline |-> MockAirlines[(i % 14) + 1],
        departureTime |-> FormatHHMM(depH, 0),
        arrivalTime |-> FormatHHMM((total \div 60) % 24, total % 60),
        departureAirport |-> r.origin,
        arrivalAirport |-> r.destination,
        duration |-> r.baseDuration,
        stops |-> stops,
        price |-> IF i < 4 THEN prices[1] ELSE IF i < 6 THEN prices[2] ELSE prices[3],
        best |-> (i = 0 /\ stops = 0),
        originSkyId |-> "", destinationSkyId |-> "",
        departureDate |-> "", returnDate |-> ""]

generateMockFlightsForRoute(r) == [k \in 1..8 |-> MockFlight(r, k)]

MockRoutes ==
    << Route("JFK", "LAX", 385, "5h 30m", 5, 30),
       Route("JFK", "LHR", 420, "7h 15m", 7, 15),
       Route("JFK", "CDG", 450, "7h 30m", 7, 30),
       Route("LAX", "NRT", 650, "10h 45m", 10, 45),
       Route("LAX", "DXB", 799, "15h 30m", 15, 30),
       Route("LAX", "SIN", 750, "17h 00m", 17, 0),
       Route("ORD", "LHR", 420, "7h 45m", 7, 45),
       Route("MIA", "BCN", 480, "8h 30m", 8, 30),
       Route("SFO", "DXB", 799, "16h 00m", 16, 0),
       Route("BOS", "FCO", 590, "8h 00m", 8, 0),
       Route("LHR", "FRA", 280, "1h 30m", 1, 30),
       Route("CDG", "FRA", 250, "1h 20m", 1, 20),
       Route("FRA", "DXB", 580, "6h 30m", 6, 30),
       Route("DXB", "SIN", 420, "7h 15m", 7, 15),
       Route("LAX", "JFK", 385, "5h 30m", 5, 30),
       Route("LHR", "JFK", 420, "7h 15m", 7, 15),
       Route("CDG", "JFK", 450, "7h 30m", 7, 30),
       Route("NRT", "LAX", 650, "10h 45m", 10, 45),
       Route("DXB", "LAX", 799, "15h 30m", 15, 30),
       Route("SIN", "LAX", 750, "17h 00m", 17, 0),
       Route("LHR", "ORD", 420, "7h 45m", 7, 45),
       Route("BCN", "MIA", 480, "8h 30m", 8, 30),
       Route("DXB", "SFO", 799, "16h 00m", 16, 0),
       Route("FCO", "BOS", 590, "8h 00m", 8, 0),
       Route("FRA", "LHR", 280, "1h 30m", 1, 30),
       Route("FRA", "CDG", 250, "1h 20m", 1, 20),
       Route("DXB", "FRA", 580, "6h 30m", 6, 30),
       Route("SIN", "DXB", 420, "7h 15m", 7, 15) >>

RECURSIVE Flatten(_)
Flatten(ss) == IF ss = << >> THEN << >> ELSE Head(ss) \o Flatten(Tail(ss))

mockFlights == Flatten([n \in 1..Len(MockRoutes) |-> generateMockFlightsForRoute(MockRoutes[n])])


(***************************************************************************)
(* JavaScript's a || b on strings: an absent (undefined) or empty string   *)
(* is falsy and is the empty string of the model.                          *)
(***************************************************************************)
OrElse(a, b) == IF a # "" THEN a ELSE b

\* String.prototype.trim, on the strings of the model it is applied to.
Trim(text) == IF text = " " THEN "" ELSE text

(***************************************************************************)
(* extractIATACode.  The regular expressions        *)
(* /\(([A-Z]{3})\)/i and /^[A-Z]{3}$/i are tabulated for the strings of    *)
(* the model, which are upper case (toUpperCase leaves them unchanged).    *)
(***************************************************************************)
ParenCodes ==
    { << "New York (JFK)", "JFK" >>,
      << "Los Angeles (LAX)", "LAX" >>,
      << "San Francisco (SFO)", "SFO" >> }

ThreeLetterCodes ==
    { "JFK", "LAX", "LHR", "CDG", "NRT", "DXB", "SIN", "FRA", "ORD", "BCN",
      "MIA", "SFO", "BOS", "FCO" }

extractIATACode(displayString) ==
    IF displayString = "" THEN ""
    ELSE IF \E pc \in ParenCodes : pc[1] = displayString
         THEN (CHOOSE pc \in ParenCodes : pc[1] = displayString)[2]
         ELSE IF displayString \in ThreeLetterCodes THEN displayString
              ELSE displayString

(***************************************************************************)
(* FlightSearchParams.  passengers, cabinClass, currency, market,          *)
(* countryCode and locale only travel into the request's query string and  *)
(* are left out.                                                           *)
(***************************************************************************)
Params(from, to, departure, ret, tripType, oSky, dSky, oEnt, dEnt) ==
    [from |-> from, to |-> to, departure |-> departure, return |-> ret,
     tripType |-> tripType, originSkyId |-> oSky, destinationSkyId |-> dSky,
     originEntityId |-> oEnt, destinationEntityId |-> dEnt]

(***************************************************************************)
(* services/flightApi.ts getFilteredMockFlights, from the point where the   *)
(* dynamic import of data/flights has resolved.                            *)
(***************************************************************************)
\* getFilteredMockFlights without its filter on the route.
getFilteredMockFlights_unfiltered(params, fallbackId) ==
    [index \in 1..Len(mockFlights) |->
       LET flight == mockFlights[index] IN
       [flight EXCEPT
          !.id = OrElse(flight.id, fallbackId \o "-flight"),
          !.originSkyId = params.originSkyId,
          !.destinationSkyId = params.destinationSkyId,
          !.departureDate = params.departure,
          !.returnDate = IF params.tripType = "round-trip" /\ params.return # ""
                         THEN params.return ELSE ""]]

getFilteredMockFlights(params, fallbackId) ==
    LET originIATA == extractIATACode(OrElse(params.from, OrElse(params.originSkyId, "")))
        destIATA == extractIATACode(OrElse(params.to, OrElse(params.destinationSkyId, "")))
        OnRoute(f) == f.departureAirport = originIATA /\ f.arrivalAirport = destIATA
        filteredFlights == IF originIATA # "" /\ destIATA # ""
                           THEN SelectSeq(mockFlights, OnRoute)
                           ELSE mockFlights
    IN [index \in 1..Len(filteredFlights) |->
          LET flight == filteredFlights[index] IN
          [flight EXCEPT
             !.id = OrElse(flight.id, fallbackId \o "-flight"),
             !.originSkyId = params.originSkyId,
             !.destinationSkyId = params.destinationSkyId,
             !.departureDate = params.departure,
             !.returnDate = IF params.tripType = "round-trip" /\ params.return # ""
                            THEN params.return ELSE ""]]

(***************************************************************************)
(* Raw flight records of an API response.  Of each fallback chain of       *)
(* normalizeFlightObject a raw record of the model carries the first field *)
(* name (and `amount` besides `price`); an absent string field is "", an   *)
(* absent number is flagged.                                               *)
(***************************************************************************)
Raw(id, airline, dep, arr, from, to, duration, hasStops, stops, hasSegments, segments, price, amount, best) ==
    [id |-> id, airline |-> airline, departureTime |-> dep, arrivalTime |-> arr,
     departureAirport |-> from, arrivalAirport |-> to, duration |-> duration,
     hasStops |-> hasStops, stops |-> stops, hasSegments |-> hasSegments,
     segments |-> segments, price |-> price, amount |-> amount, best |-> best]

\* Number(text) of the two parts of an "HH:MM" string.
ClockTexts == { << FormatHHMM(h, m), h, m >> : h \in 0..23, m \in 0..59 }
HourOf(t) == (CHOOSE e \in ClockTexts : e[1] = t)[2]
MinuteOf(t) == (CHOOSE e \in ClockTexts : e[1] = t)[3]

NumberText(n) ==
    << "0", "1", "2", "3", "4", "5", "6", "7", "8", "9", "10", "11", "12",
       "13", "14", "15", "16", "17", "18", "19", "20", "21", "22", "23",
       "24", "25", "26", "27", "28", "29", "30", "31", "32", "33", "34",
       "35", "36", "37", "38", "39", "40", "41", "42", "43", "44", "45",
       "46", "47", "48", "49", "50", "51", "52", "53", "54", "55", "56",
       "57", "58", "59" >>[n + 1]

\* The back-fill with the distance between the two clock times in place of
\* the wrap past midnight.
durationMinutes_absolute(depMinutes, arrMinutes) ==
    IF arrMinutes < depMinutes THEN depMinutes - arrMinutes ELSE arrMinutes - depMinutes

\* let durationMinutes = arrMinutes - depMinutes
\* if (durationMinutes < 0) durationMinutes += 24 * 60
durationMinutes(depMinutes, arrMinutes) ==
    LET diff == arrMinutes - depMinutes
    IN IF diff < 0 THEN diff + 24 * 60 ELSE diff

normalizeFlightObject(flightData, index, params) ==
    LET departureTime == flightData.departureTime
        arrivalTime == flightData.arrivalTime
        duration == flightData.duration
        depMinutes == HourOf(departureTime) * 60 + MinuteOf(departureTime)
        arrMinutes == HourOf(arrivalTime) * 60 + MinuteOf(arrivalTime)
    IN [id |-> OrElse(flightData.id, "flight-" \o NumberText(index)),
        airline |-> OrElse(flightData.airline, "Unknown Airline"),
        departureTime |-> departureTime,
        arrivalTime |-> arrivalTime,
        departureAirport |-> OrElse(flightData.departureAirport, OrElse(params.from, "")),
        arrivalAirport |-> OrElse(flightData.arrivalAirport, OrElse(params.to, "")),
        duration |-> IF duration = "" /\ departureTime # "" /\ arrivalTime # ""
                     THEN NumberText(durationMinutes(depMinutes, arrMinutes) \div 60) \o "h "
                          \o NumberText(durationMinutes(depMinutes, arrMinutes) % 60) \o "m"
                     ELSE duration,
        stops |-> IF flightData.hasStops THEN flightData.stops
                  ELSE IF flightData.hasSegments
                       THEN Max(0, flightData.segments - 1) ELSE 0,
        price |-> IF flightData.price # 0 THEN flightData.price ELSE flightData.amount,
        best |-> flightData.best,
        originSkyId |-> params.originSkyId,
        destinationSkyId |-> params.destinationSkyId,
        departureDate |-> params.departure,
        returnDate |-> IF params.tripType = "round-trip" /\ params.return # ""
                       THEN params.return ELSE ""]

(***************************************************************************)
(* A response body is its JSON shape and the flight array it holds:        *)
(*   "array"        [...]                   "data.data"    {data:{data:[...]}} *)
(*   "data.flights" {data:{flights:[...]}}  "data"         {data:[...]}     *)
(*   "object"       any other object, e.g. {status:false, message:"..."}   *)
(***************************************************************************)
Body(shape, items) == [shape |-> shape, items |-> items]

normalizeFlightResponse(response) ==
    IF response.shape \in {"array", "data.data", "data.flights", "data"}
    THEN response.items
    ELSE << >>

(***************************************************************************)
(* utils/calculatePriceRange.ts, on whole-number prices.                   *)
(***************************************************************************)
DEFAULT_PRICE_MAX == 10000

\* calculatePriceRange over all the prices, those of 0 or less included.
calculatePriceRange_allPrices(flightPrices) ==
    IF Len(flightPrices) = 0
    THEN [min |-> 0, max |-> DEFAULT_PRICE_MAX]
    ELSE LET values == { flightPrices[i] : i \in 1..Len(flightPrices) }
             lowest == CHOOSE x \in values : \A y \in values : x <= y
             highest == CHOOSE x \in values : \A y \in values : x >= y
         IN [min |-> IF lowest < 0 THEN 0 ELSE (lowest \div 100) * 100,
             max |-> ((highest + 99) \div 100) * 100]

\* Math.min(...values) and Math.max(...values) of a non-empty list.
SeqMin(seq) ==
    LET values == { seq[i] : i \in 1..Len(seq) } IN
    CHOOSE x \in values : \A y \in values : x <= y

SeqMax(seq) ==
    LET values == { seq[i] : i \in 1..Len(seq) } IN
    CHOOSE x \in values : \A y \in values : x >= y

calculatePriceRange(flightPrices) ==
    LET Positive(p) == p > 0
        validPrices == SelectSeq(flightPrices, Positive)
    IN IF Len(validPrices) = 0
       THEN [min |-> 0, max |-> DEFAULT_PRICE_MAX]
       ELSE [min |-> Max(0, (SeqMin(validPrices) \div 100) * 100),
             max |-> ((SeqMax(validPrices) + 99) \div 100) * 100]

PricesOf(fs) == [i \in 1..Len(fs) |-> fs[i].price]


(***************************************************************************)
(* services/flightApi.ts: the mock producers of the other two endpoints.   *)
(***************************************************************************)
\* Coordinates are whole degrees; `numeric` is typeof lat/lng === 'number'.
Coords(lat, lng, numeric) == [lat |-> lat, lng |-> lng, numeric |-> numeric]

getMockNearbyAirports(lat, lng) ==
    IF lat >= 40 /\ lat <= 42 /\ lng >= -75 /\ lng <= -73 THEN << "JFK", "LGA", "EWR" >>
    ELSE IF lat >= 33 /\ lat <= 35 /\ lng >= -119 /\ lng <= -117 THEN << "LAX", "SNA", "BUR" >>
    ELSE IF lat >= 51 /\ lat <= 52 /\ lng >= -1 /\ lng <= 1 THEN << "LHR", "LGW", "STN" >>
    ELSE IF lat >= 48 /\ lat <= 49 /\ lng >= 2 /\ lng <= 3 THEN << "CDG", "ORY" >>
    ELSE << "JFK", "LGA", "EWR" >>

\* The date strings of the model; new Date(text) is a valid date for the
\* first two and Invalid Date for the third.
ValidDates == { "2026-12-01", "2026-12-08" }
DateTexts == ValidDates \cup { "not-a-date" }

CalendarArgs(o, d, fromDate) == [originSkyId |-> o, destinationSkyId |-> d, fromDate |-> fromDate]

\* getMockPriceCalendar: thirty days from fromDate; Date.prototype.toISOString
\* throws a RangeError on an invalid date.  The thirty random prices are not
\* part of the value of the model.
getMockPriceCalendar(args) ==
    IF args.fromDate \in ValidDates
    THEN [ok |-> TRUE,
          value |-> [origin |-> args.originSkyId, destination |-> args.destinationSkyId,
                     days |-> 30, firstDate |-> args.fromDate],
          error |-> NoError]
    ELSE [ok |-> FALSE, value |-> << >>,
          error |-> MkError("RangeError", "RangeError", MSG_INVALID_TIME)]

(***************************************************************************)
(* An asynchronous invocation.                                             *)
(*   fn       the exported function called                                 *)
(*   pc       "idle"; "request": requestFn (the fetch) is in flight;       *)
(*            "import": getFilteredMockFlights awaits import('../data/     *)
(*            flights'), fallbackId being its second argument;             *)
(*            "backoff": the retry delay is running; "apicall": a wrapped  *)
(*            apiCall of a direct withMockFallback call is pending;        *)
(*            "settled": the returned promise is settled and the caller's  *)
(*            continuation is queued; "done": the caller has the outcome   *)
(*   attempt  the loop variable of apiRequestWithRetry                     *)
(*   invoked  invocations of requestFn so far (network requests, for the   *)
(*            endpoints)                                                   *)
(*   waits    backoff delays started so far                                *)
(*   errs     the errors of the attempts so far, lastError last            *)
(*   apiCalls / mockCalls   invocations of withMockFallback's apiCall and  *)
(*            of the mock producer                                         *)
(***************************************************************************)
NoArgs == [none |-> TRUE]

Pending == [state |-> "pending", source |-> "none", value |-> << >>, error |-> NoError]
Resolved(source, value) ==
    [state |-> "resolved", source |-> source, value |-> value, error |-> NoError]
Rejected(e) == [state |-> "rejected", source |-> "none", value |-> << >>, error |-> e]

IdleCall ==
    [fn |-> "none", args |-> NoArgs, cfg |-> DEFAULT_CONFIG, pc |-> "idle",
     attempt |-> 0, invoked |-> 0, waits |-> 0, errs |-> << >>,
     apiCalls |-> 0, mockCalls |-> 0, fallbackId |-> "", result |-> Pending]

NewCall(fn, args, cfg) == [IdleCall EXCEPT !.fn = fn, !.args = args, !.cfg = cfg]

Settle(call, result) == [call EXCEPT !.pc = "settled", !.result = result]

\* getFilteredMockFlights up to its await of the dynamic import.
getFilteredMockFlightsStart(call, fallbackId) ==
    [call EXCEPT !.pc = "import", !.fallbackId = fallbackId]

\* The mock producer a function hands to withMockFallback, run: its value, or
\* the error it throws.
MockData(call) ==
    CASE call.fn = "getNearByAirports" ->
           [ok |-> TRUE, value |-> getMockNearbyAirports(call.args.lat, call.args.lng),
            error |-> NoError]
      [] call.fn = "getPriceCalendar" -> getMockPriceCalendar(call.args)
      [] call.fn = "withMockFallback" ->
           IF call.args.mock = "throws"
           THEN [ok |-> FALSE, value |-> << >>, error |-> MkError("Error", "Error", "mock failed")]
           ELSE [ok |-> TRUE, value |-> << "mock-value", call.args.mock >>, error |-> NoError]

\* withMockFallback: `return getMockData()` in an async function resolves with
\* the value (awaiting it when it is a promise) and rejects with what it throws.
ReturnMockData(call) ==
    LET m == MockData(call)
        c2 == [call EXCEPT !.mockCalls = @ + 1]
    IN Settle(c2, IF m.ok THEN Resolved("mock", m.value) ELSE Rejected(m.error))

\* The catch block of the function that awaited apiRequest (or the wrapped
\* apiCall), with the error e it caught.
FnCatch(call, e) ==
    CASE call.fn = "searchFlights" -> getFilteredMockFlightsStart(call, "fallback")
      [] call.fn \in {"getNearByAirports", "getPriceCalendar", "withMockFallback"} ->
           ReturnMockData(call)
      [] call.fn = "apiRequestWithRetry" -> Settle(call, Rejected(e))

\* What the function makes of the parsed JSON body: a value, or a thrown error.
ParseBody(call, body) ==
    CASE call.fn = "searchFlights" ->
           LET rawFlights == normalizeFlightResponse(body) IN
           IF Len(rawFlights) = 0
           THEN [ok |-> FALSE, value |-> << >>, error |-> MkError("Error", "Error", MSG_EMPTY)]
           ELSE [ok |-> TRUE,
                 value |-> [i \in 1..Len(rawFlights) |->
                              normalizeFlightObject(rawFlights[i], i - 1, call.args)],
                 error |-> NoError]
      [] call.fn = "getNearByAirports" ->
           LET airports == IF body.shape = "nearby" THEN body.items ELSE << >> IN
           IF Len(airports) = 0
           THEN [ok |-> FALSE, value |-> << >>, error |-> MkError("Error", "Error", MSG_NO_AIRPORTS)]
           ELSE [ok |-> TRUE, value |-> airports, error |-> NoError]
      [] call.fn = "getPriceCalendar" ->
           IF body.shape \in {"array", "data", "calendar"}
           THEN [ok |-> TRUE,
                 value |-> [origin |-> call.args.originSkyId,
                            destination |-> call.args.destinationSkyId,
                            days |-> Len(body.items), firstDate |-> call.args.fromDate],
                 error |-> NoError]
           ELSE [ok |-> FALSE, value |-> << >>,
                 error |-> MkError("Error", "Error", MSG_CALENDAR_PARSE)]
      [] call.fn = "apiRequestWithRetry" -> [ok |-> TRUE, value |-> body, error |-> NoError]

\* apiRequestWithRetry returned `data`: apiRequest returns it and the caller
\* parses it inside its try block.
AfterApiSuccess(call, body) ==
    LET p == ParseBody(call, body) IN
    IF p.ok THEN Settle(call, Resolved("api", p.value)) ELSE FnCatch(call, p.error)

\* The catch block of apiRequest: an Error with a status is rethrown as it is,
\* anything else is replaced by an Error with the classified message.
ApiRequestRethrow(e) ==
    IF e.isError /\ e.hasStatus THEN e ELSE MkError("Error", "Error", handleApiError(e))

\* apiRequestWithRetry threw lastError.
AfterApiFailure(call, e) ==
    IF call.fn = "apiRequestWithRetry" THEN FnCatch(call, e)
    ELSE FnCatch(call, ApiRequestRethrow(e))

\* apiRequest: the key check, then the first invocation of requestFn by
\* apiRequestWithRetry with the default configuration.
ApiRequestStart(call) ==
    IF RAPID_API_KEY = ""
    THEN FnCatch(call, MkError("Error", "NoApiKeyError", MSG_NO_KEY))
    ELSE [call EXCEPT !.pc = "request", !.attempt = 0, !.invoked = @ + 1]

\* The apiCall handed to withMockFallback, invoked: the closure of an endpoint
\* calls apiRequest, the apiCall of a direct caller is arbitrary.
InvokeApiCall(call) ==
    IF call.fn = "withMockFallback" THEN [call EXCEPT !.pc = "apicall"]
    ELSE ApiRequestStart(call)

\* withMockFallback up to its first suspension point.
withMockFallback(call) ==
    IF RAPID_API_KEY = "" THEN ReturnMockData(call)
    ELSE InvokeApiCall([call EXCEPT !.apiCalls = @ + 1])

HasIds(params) ==
    /\ params.originSkyId # ""
    /\ params.destinationSkyId # ""
    /\ params.originEntityId # ""
    /\ params.destinationEntityId # ""

searchFlightsStart(call) ==
    LET params == call.args IN
    IF RAPID_API_KEY = ""
    THEN getFilteredMockFlightsStart(call, "mock")
    ELSE IF ~HasIds(params)
         THEN IF params.from # "" /\ params.to # ""
              THEN getFilteredMockFlightsStart(call, "mock")
              ELSE Settle(call, Rejected(MkError("Error", "Error", MSG_MISSING_PARAMS)))
         ELSE ApiRequestStart(call)

getNearByAirportsStart(call) ==
    LET a == call.args IN
    IF ~a.numeric
    THEN Settle(call, Rejected(MkError("Error", "Error", MSG_LAT_LNG_TYPE)))
    ELSE IF a.lat < -90 \/ a.lat > 90
         THEN Settle(call, Rejected(MkError("Error", "Error", MSG_LAT_RANGE)))
         ELSE IF a.lng < -180 \/ a.lng > 180
              THEN Settle(call, Rejected(MkError("Error", "Error", MSG_LNG_RANGE)))
              ELSE withMockFallback(call)

getPriceCalendarStart(call) ==
    LET a == call.args IN
    IF a.originSkyId = "" \/ a.destinationSkyId = "" \/ a.fromDate = ""
    THEN Settle(call, Rejected(MkError("Error", "Error", MSG_CALENDAR_ARGS)))
    ELSE withMockFallback(call)

\* A direct call of apiRequestWithRetry with an arbitrary requestFn.
apiRequestWithRetryStart(call) ==
    [call EXCEPT !.pc = "request", !.attempt = 0, !.invoked = @ + 1]

StartCall(fn, args, cfg) ==
    LET call == NewCall(fn, args, cfg) IN
    CASE fn = "searchFlights" -> searchFlightsStart(call)
      [] fn = "getNearByAirports" -> getNearByAirportsStart(call)
      [] fn = "getPriceCalendar" -> getPriceCalendarStart(call)
      [] fn = "withMockFallback" -> withMockFallback(call)
      [] fn = "apiRequestWithRetry" -> apiRequestWithRetryStart(call)


(***************************************************************************)
(* The inputs of the model.                                                *)
(***************************************************************************)
\* "" is the key left unset, " " a key of white space only.
KeyValues == { "", " ", "test-key" }

\* utils/envConfig.ts: !!RAPID_API_KEY.
isApiConfigured == RAPID_API_KEY # ""

\* What the search form builds (from = iata or skyId), what the deals page
\* builds (from = "City (IATA)"), a city entity without an IATA code, legacy
\* parameters without ids, and parameters with nothing in them.
FormParams(o, d) == Params(o, d, "2026-12-01", "", "one-way", o, d, "id-" \o o, "id-" \o d)
DealParams(oText, dText, o, d) ==
    Params(oText, dText, "2026-12-08", "", "round-trip", o, d, "id-" \o o, "id-" \o d)
LegacyParams(o, d) == Params(o, d, "2026-12-01", "", "one-way", "", "", "", "")
EmptyParams == Params("", "", "2026-12-01", "", "one-way", "", "", "", "")

ValidSearchInputs ==
    { FormParams("JFK", "LAX"),
      FormParams("JFK", "SFO"),
      FormParams("NYCA", "LAX"),
      DealParams("Los Angeles (LAX)", "New York (JFK)", "LAX", "JFK") }

SearchInputs == ValidSearchInputs \cup { LegacyParams("JFK", "LAX"), EmptyParams }

NearbyInputs ==
    { Coords(41, -74, TRUE), Coords(0, 0, TRUE), Coords(91, 0, TRUE),
      Coords(0, 181, TRUE), Coords(0, 0, FALSE) }

CalendarInputs ==
    { CalendarArgs("JFK", "LAX", d) : d \in DateTexts \cup { "" } }

\* getMockData of a direct withMockFallback call: returns a value, returns a
\* promise of one, or throws.
FallbackInputs == { [mock |-> m] : m \in { "sync", "async", "throws" } }

RetryConfigs ==
    { [maxRetries |-> n, retryableStatusCodes |-> codes] :
        n \in 0..MaxRetriesBound,
        codes \in { DEFAULT_RETRYABLE, DEFAULT_RETRYABLE \cup { 429 }, { 401, 404 }, { } } }

HttpError(s) == WithStatus(MkError("Error", "Error", HttpMessage(s)), s)

RawFlightLists ==
    { << Raw("api-1", "Delta Airlines", "22:00", "02:00", "", "", "", FALSE, 0, TRUE, 2, 120, 0, FALSE),
         Raw("", "", "08:00", "13:30", "JFK", "LAX", "5h 30m", TRUE, 0, FALSE, 0, 0, 999, TRUE) >>,
      << Raw("api-3", "JetBlue", "", "", "", "", "", FALSE, 0, FALSE, 0, 0, 0, FALSE) >>,
      << Raw("api-6", "Frontier Airlines", "10:00", "12:00", "JFK", "LAX", "2h 0m", TRUE, -1, FALSE, 0, -50, 0, FALSE),
         Raw("api-7", "Alaska Airlines", "10:00", "12:35", "JFK", "LAX", "", FALSE, 0, TRUE, 0, 0, 180, FALSE) >> }

SearchBodies ==
    { Body("array", l) : l \in RawFlightLists }
    \cup { Body("data.data", l) : l \in RawFlightLists }
    \cup { Body("data.flights", << >>), Body("data", << >>), Body("object", << >>) }

NearbyBodies == { Body("nearby", << "JFK", "NYCA" >>), Body("nearby", << >>), Body("object", << >>) }

CalendarBodies ==
    { Body("array", << "2026-12-01" >>), Body("data", << >>),
      Body("calendar", << "2026-12-01", "2026-12-02" >>), Body("object", << >>) }

Ok(body) == [ok |-> TRUE, body |-> body, error |-> NoError]
Fails(e) == [ok |-> FALSE, body |-> Body("none", << >>), error |-> e]

\* The fetch closure apiRequest hands to apiRequestWithRetry: the parsed body
\* of a 2xx response; an Error with the status of a non-2xx response; the
\* TypeError of a failed fetch; the SyntaxError of a 2xx body that is no JSON.
FetchOutcomes(bodies) ==
    { Ok(b) : b \in bodies }
    \cup { Fails(HttpError(s)) : s \in NetStatuses }
    \cup { Fails(MkError("TypeError", "TypeError", MSG_FETCH)),
           Fails(MkError("SyntaxError", "SyntaxError", MSG_JSON)) }

\* What an arbitrary requestFn or apiCall may throw.
ThrownValues ==
    { HttpError(429), HttpError(503), HttpError(404), HttpError(401), HttpError(500),
      MkError("Error", "Error", "boom"),
      MkError("Error", "NoApiKeyError", MSG_NO_KEY),
      MkError("TypeError", "TypeError", MSG_FETCH),
      NonError("object", "") }

ArbitraryOutcomes == { Ok(Body("value", << >>)) } \cup { Fails(e) : e \in ThrownValues }

RequestOutcomes(fn) ==
    CASE fn = "searchFlights" -> FetchOutcomes(SearchBodies)
      [] fn = "getNearByAirports" -> FetchOutcomes(NearbyBodies)
      [] fn = "getPriceCalendar" -> FetchOutcomes(CalendarBodies)
      [] OTHER -> ArbitraryOutcomes

(***************************************************************************)
(* The steps of an invocation.                                             *)
(***************************************************************************)
\* requestFn settles: apiRequestWithRetry returns its value, or records the
\* error and either starts the backoff delay or throws lastError.
OnRequestSettled(call, out) ==
    IF out.ok THEN AfterApiSuccess(call, out.body)
    ELSE LET c2 == [call EXCEPT !.errs = Append(@, out.error)] IN
         IF RetryDecision(call.attempt, call.cfg.maxRetries, out.error,
                          call.cfg.retryableStatusCodes) = "retry"
         THEN [c2 EXCEPT !.pc = "backoff", !.waits = @ + 1]
         ELSE AfterApiFailure(c2, out.error)

RequestSettles(c, outcomes) ==
    /\ calls[c].pc = "request"
    /\ \E out \in outcomes :
         calls' = [calls EXCEPT ![c] = OnRequestSettled(calls[c], out)]
    /\ UNCHANGED <<resultsPage, appStatus, input, RAPID_API_KEY, mockModule, order, ctxVars, healthVars>>

\* The backoff timer fires: the loop increments attempt and invokes requestFn.
BackoffElapsed(c) ==
    /\ calls[c].pc = "backoff"
    /\ calls' = [calls EXCEPT ![c].pc = "request", ![c].attempt = @ + 1,
                              ![c].invoked = @ + 1]
    /\ UNCHANGED <<resultsPage, appStatus, input, RAPID_API_KEY, mockModule, order, ctxVars, healthVars>>

\* The dynamic import of data/flights settles: the module is evaluated once and
\* then served from the module map; until then fetching it may also fail, and
\* the rejection leaves getFilteredMockFlights and searchFlights uncaught.
ImportSettles(c) ==
    /\ calls[c].pc = "import"
    /\ \/ /\ calls' = [calls EXCEPT ![c] =
                        Settle(calls[c], Resolved("mock",
                            getFilteredMockFlights(calls[c].args, calls[c].fallbackId)))]
          /\ mockModule' = "loaded"
       \/ /\ mockModule = "unloaded"
          /\ calls' = [calls EXCEPT ![c] =
                        Settle(calls[c], Rejected(MkError("TypeError", "TypeError", MSG_IMPORT)))]
          /\ UNCHANGED mockModule
    /\ UNCHANGED <<resultsPage, appStatus, input, RAPID_API_KEY, order, ctxVars, healthVars>>

\* The apiCall of a direct withMockFallback call settles.
ApiCallSettles(c) ==
    /\ calls[c].pc = "apicall"
    /\ \E out \in ArbitraryOutcomes :
         calls' = [calls EXCEPT ![c] =
                     IF out.ok THEN Settle(calls[c], Resolved("api", out.body))
                     ELSE ReturnMockData(calls[c])]
    /\ UNCHANGED <<resultsPage, appStatus, input, RAPID_API_KEY, mockModule, order, ctxVars, healthVars>>

\* A caller invokes one of the exported functions.
Invoke(c) ==
    /\ calls[c].pc = "idle"
    /\ \E fn \in { "searchFlights", "getNearByAirports", "getPriceCalendar",
                   "withMockFallback", "apiRequestWithRetry" } :
         \E args \in (CASE fn = "searchFlights" -> SearchInputs
                        [] fn = "getNearByAirports" -> NearbyInputs
                        [] fn = "getPriceCalendar" -> CalendarInputs
                        [] fn = "withMockFallback" -> FallbackInputs
                        [] fn = "apiRequestWithRetry" -> { NoArgs }) :
           \E cfg \in (IF fn = "apiRequestWithRetry" THEN RetryConfigs
                       ELSE { DEFAULT_CONFIG }) :
             calls' = [calls EXCEPT ![c] = StartCall(fn, args, cfg)]
    /\ order' = Append(order, c)
    /\ UNCHANGED <<resultsPage, appStatus, input, RAPID_API_KEY, mockModule, ctxVars, healthVars>>

\* The caller's continuation runs with the outcome of the settled promise.
Deliver(c) ==
    /\ calls[c].pc = "settled"
    /\ calls' = [calls EXCEPT ![c].pc = "done"]
    /\ UNCHANGED <<resultsPage, appStatus, input, RAPID_API_KEY, mockModule, order, ctxVars, healthVars>>


(***************************************************************************)
(* The state after construction.                                           *)
(***************************************************************************)
\* A nullable value is a sequence of at most one element.
None == << >>
Some(x) == << x >>

\* The `error` state of the search context: a message, or null.
NULL == "<null>"

defaultFilters ==
    [priceRange |-> [min |-> 0, max |-> DEFAULT_PRICE_MAX],
     stops |-> { }, airlines |-> { }, departureTimes |-> { }, arrivalTimes |-> { },
     duration |-> 0]

\* AutocompleteInput after its first render with value "": no suggestions, no
\* selection, no timer, the refs of useStrictModeDeduplication unset.
\*   pending / elapsed   the timer of useDebounce and the time since it was set
\*   searchAbort         the search whose canceller searchAbortRef.current
\*                       holds, 0 when the ref is null
\*   inflight            the searchAirport calls whose result has not arrived,
\*                       each with the `cancelled` variable of its effect run
\*   searches            the queries searchAirport was called with; a search
\*                       is known by its place in this list
\*   appliedId           the search whose results were stored last, 0 if none
\*   mounted             the component is mounted
NoAirport == [iata |-> "", city |-> "", name |-> "", skyId |-> "", country |-> ""]

AirportSearch(id, query) == [id |-> id, query |-> query, cancelled |-> FALSE]

IdleInput ==
    [value |-> "", debouncedValue |-> "", pending |-> FALSE, elapsed |-> 0,
     selectedAirport |-> NoAirport, suggestions |-> << >>, isOpen |-> FALSE,
     isLoading |-> FALSE, hasExecuted |-> FALSE, lastKey |-> "",
     searchAbort |-> 0, inflight |-> << >>, searches |-> << >>, keys |-> 0,
     appliedId |-> 0, mounted |-> TRUE]

NoOutcome == [kind |-> "none", status |-> 0]

IdleHealth ==
    [pc |-> "idle", skipCache |-> FALSE, timestamp |-> 0,
     cacheAtStart |-> None, probed |-> FALSE, ticked |-> FALSE,
     outcome |-> NoOutcome, result |-> None]

HealthIds == 1..MaxHealthCalls

InitContext ==
    /\ searchParams = None
    /\ flights = << >>
    /\ isLoading = FALSE
    /\ error = NULL
    /\ filters = defaultFilters
    /\ sortOption = "best"
    /\ panel = "none"

InitHealth ==
    /\ cachedHealthCheck = None
    /\ now = 0
    /\ probes = 0
    /\ health = [h \in HealthIds |-> IdleHealth]

InitInput == input = IdleInput

\* No page has navigated to /flights yet.
InitResults == resultsPage = [location |-> None, visits |-> 0]

\* AppStatusProvider before its mount effect has run.
InitStatus ==
    appStatus = [mounted |-> FALSE, prod |-> FALSE,
                 health |-> [isOnline |-> FALSE, message |-> "Checking server status..."],
                 inflight |-> 0, checks |-> 0]

InitCalls ==
    /\ RAPID_API_KEY \in KeyValues
    /\ mockModule = "unloaded"
    /\ calls = [c \in CallIds |-> IdleCall]
    /\ order = << >>

(***************************************************************************)
(* SpecApi: callers of the exported functions of flightApi.ts, of          *)
(* withMockFallback and of apiRequestWithRetry, one invocation at a time.  *)
(***************************************************************************)
InitApi == InitCalls /\ InitContext /\ InitHealth /\ InitInput /\ InitResults /\ InitStatus

NextApi ==
    \/ Invoke(1)
    \/ RequestSettles(1, RequestOutcomes(calls[1].fn))
    \/ BackoffElapsed(1)
    \/ ImportSettles(1)
    \/ ApiCallSettles(1)
    \/ Deliver(1)

SpecApi == InitApi /\ [][NextApi]_vars


(***************************************************************************)
(* context/SearchContext.tsx.                                              *)
(***************************************************************************)
Ctx == [flights |-> flights, error |-> error, filters |-> filters, isLoading |-> isLoading]

\* performSearch once `await searchFlights(params)` has settled, the finally
\* block without the setIsLoading(false) of the source.
performSearchContinuation_noFinally(call, ctx) ==
    IF call.result.state = "resolved"
    THEN LET results == call.result.value IN
         [ctx EXCEPT !.flights = results,
                     !.filters = IF Len(results) > 0
                                 THEN [@ EXCEPT !.priceRange =
                                         calculatePriceRange(PricesOf(results))]
                                 ELSE @,
                     !.isLoading = FALSE]
    ELSE LET err == call.result.error IN
         [ctx EXCEPT !.error = IF err.isError THEN err.message ELSE MSG_SEARCH_FAILED,
                     !.flights = << >>]

\* The same, and no price range derived from the results.
performSearchContinuation_keepsRange(call, ctx) ==
    IF call.result.state = "resolved"
    THEN [ctx EXCEPT !.flights = call.result.value, !.isLoading = FALSE]
    ELSE LET err == call.result.error IN
         [ctx EXCEPT !.error = IF err.isError THEN err.message ELSE MSG_SEARCH_FAILED,
                     !.flights = << >>,
                     !.isLoading = FALSE]

\* performSearch from the point where `await searchFlights(params)` has
\* settled: the rest of the try block or the catch block, then the finally
\* block.  The state updates of one continuation are applied together.
performSearchContinuation(call, ctx) ==
    LET afterTry ==
          IF call.result.state = "resolved"
          THEN LET results == call.result.value IN
               [ctx EXCEPT !.flights = results,
                           !.filters = IF Len(results) > 0
                                       THEN [@ EXCEPT !.priceRange =
                                               calculatePriceRange(PricesOf(results))]
                                       ELSE @]
          ELSE LET err == call.result.error IN
               [ctx EXCEPT !.error = IF err.isError THEN err.message
                                     ELSE MSG_SEARCH_FAILED,
                           !.flights = << >>]
    IN [afterTry EXCEPT !.isLoading = FALSE]

\* performSearch(params) up to its await: the three state updates and the
\* call of searchFlights, in the next free slot; `page` is the Results page
\* the caller has navigated to.
performSearchFrom(params, page) ==
    LET c == Len(order) + 1 IN
    /\ c \in CallIds
    /\ isLoading' = TRUE
    /\ error' = NULL
    /\ searchParams' = Some(params)
    /\ calls' = [calls EXCEPT ![c] = StartCall("searchFlights", params, DEFAULT_CONFIG)]
    /\ order' = Append(order, c)
    /\ resultsPage' = page
    /\ UNCHANGED <<appStatus, input, RAPID_API_KEY, mockModule, flights, filters, sortOption, panel, healthVars>>

\* performSearch called from the page that is showing.
performSearch(params) == performSearchFrom(params, resultsPage)

CompleteSearch(c) ==
    /\ calls[c].pc = "settled"
    /\ LET next == performSearchContinuation(calls[c], Ctx) IN
         /\ flights' = next.flights
         /\ error' = next.error
         /\ filters' = next.filters
         /\ isLoading' = next.isLoading
    /\ calls' = [calls EXCEPT ![c].pc = "done"]
    /\ UNCHANGED <<resultsPage, appStatus, input, RAPID_API_KEY, mockModule, order, searchParams, sortOption, panel, healthVars>>

\* setFilters(newFilters): a shallow merge into the current filters.
MergeFilters(prev, newFilters) ==
    LET Has(k) == k \in DOMAIN newFilters IN
    [priceRange |-> IF Has("priceRange") THEN newFilters.priceRange ELSE prev.priceRange,
     stops |-> IF Has("stops") THEN newFilters.stops ELSE prev.stops,
     airlines |-> IF Has("airlines") THEN newFilters.airlines ELSE prev.airlines,
     departureTimes |-> IF Has("departureTimes") THEN newFilters.departureTimes
                        ELSE prev.departureTimes,
     arrivalTimes |-> IF Has("arrivalTimes") THEN newFilters.arrivalTimes
                      ELSE prev.arrivalTimes,
     duration |-> IF Has("duration") THEN newFilters.duration ELSE prev.duration]

setFilters(newFilters) ==
    /\ filters' = MergeFilters(filters, newFilters)
    /\ panel' = "setFilters"
    /\ UNCHANGED <<resultsPage, appStatus, input, RAPID_API_KEY, mockModule, calls, order, searchParams, flights,
                   isLoading, error, sortOption, healthVars>>

\* calculatePriceRangeFromFlights, answering the hardcoded default range
\* whatever the flights are.
calculatePriceRangeFromFlights_default(fs) == defaultFilters.priceRange

calculatePriceRangeFromFlights(fs) ==
    IF Len(fs) > 0 THEN calculatePriceRange(PricesOf(fs)) ELSE defaultFilters.priceRange

\* clearFilters(): the default filters with the price range of the flights
\* stored at the call, and the 'best' sort.
clearFilters ==
    /\ filters' = [defaultFilters EXCEPT !.priceRange = calculatePriceRangeFromFlights(flights)]
    /\ sortOption' = "best"
    /\ panel' = "clearFilters"
    /\ UNCHANGED <<resultsPage, appStatus, input, RAPID_API_KEY, mockModule, calls, order, searchParams, flights,
                   isLoading, error, healthVars>>

(***************************************************************************)
(* utils/parseDuration.ts and getFilteredFlights of SearchContext.tsx.     *)
(***************************************************************************)
\* The texts /(\d+)h\s*(\d+)m?/ matches among the durations of the model,
\* "5h 30m" and "17h 00m" alike, with the minutes parseDuration returns.
DurationTexts ==
    { << NumberText(h) \o "h " \o NumberText(m) \o "m", h * 60 + m >> : h \in 0..23, m \in 0..59 }
    \cup { << NumberText(h) \o "h " \o PadStart2(m) \o "m", h * 60 + m >> : h \in 0..23, m \in 0..9 }

parseDuration(duration) ==
    IF \E e \in DurationTexts : e[1] = duration
    THEN (CHOOSE e \in DurationTexts : e[1] = duration)[2]
    ELSE 0

\* hour >= 6 && hour < 12 and the like; parseInt of the hours of "" is NaN,
\* which is in no range.
InTimeRange(time, timeRange) ==
    /\ time # ""
    /\ LET hour == HourOf(time) IN
       CASE timeRange = "morning" -> hour >= 6 /\ hour < 12
         [] timeRange = "afternoon" -> hour >= 12 /\ hour < 18
         [] timeRange = "evening" -> hour >= 18 /\ hour < 24
         [] timeRange = "night" -> hour >= 0 /\ hour < 6
         [] OTHER -> FALSE

\* Whether a flight passes the six filters.
PassesFilters(flight, f) ==
    /\ flight.price >= f.priceRange.min /\ flight.price <= f.priceRange.max
    /\ f.stops # { } => flight.stops \in f.stops
    /\ f.airlines # { } => flight.airline \in f.airlines
    /\ f.departureTimes # { } =>
         \E timeRange \in f.departureTimes : InTimeRange(flight.departureTime, timeRange)
    /\ f.arrivalTimes # { } =>
         \E timeRange \in f.arrivalTimes : InTimeRange(flight.arrivalTime, timeRange)
    /\ f.duration > 0 => parseDuration(flight.duration) <= f.duration

\* The comparator of the 'best' sort, ignoring the stops.
compareBest_ignoresStops(a, b) ==
    IF a.best /\ ~b.best THEN -1
    ELSE IF ~a.best /\ b.best THEN 1
    ELSE a.price - b.price

\* The comparator of the 'best' (and default) sort.
compareBest(a, b) ==
    IF a.best /\ ~b.best THEN -1
    ELSE IF ~a.best /\ b.best THEN 1
    ELSE IF a.stops = 0 /\ b.stops > 0 THEN -1
    ELSE IF a.stops > 0 /\ b.stops = 0 THEN 1
    ELSE a.price - b.price

compareCheapest(a, b) == a.price - b.price

compareFastest(a, b) == parseDuration(a.duration) - parseDuration(b.duration)

\* Array.prototype.sort with the comparator of the sort option, a consistent
\* one in each of the three cases: element i goes after
\* the elements that compare less and the equal ones before it (the sort is
\* stable).
SortWith(seq, sort) ==
    LET compare(a, b) == CASE sort = "cheapest" -> compareCheapest(a, b)
                           [] sort = "fastest" -> compareFastest(a, b)
                           [] OTHER -> compareBest(a, b)
        Rank(i) == Cardinality({ j \in 1..Len(seq) : compare(seq[j], seq[i]) < 0 })
                   + Cardinality({ j \in 1..(i - 1) : compare(seq[j], seq[i]) = 0 }) + 1
    IN [k \in 1..Len(seq) |-> seq[CHOOSE i \in 1..Len(seq) : Rank(i) = k]]

getFilteredFlights(fs, f, sort) ==
    LET Passes(flight) == PassesFilters(flight, f)
        filtered == SelectSeq(fs, Passes)
    IN IF Len(fs) = 0 THEN << >>
       ELSE SortWith(filtered, sort)

filteredFlights == getFilteredFlights(flights, filters, sortOption)

\* What the filter panel passes to setFilters.
FilterPatches ==
    { [stops |-> { 0 }],
      [airlines |-> { "Delta Airlines" }, duration |-> 600] }

\* Parameters with sky ids but neither entity ids nor from/to texts.
NoEntityParams == Params("", "", "2026-12-01", "", "one-way", "JFK", "LAX", "", "")

\* The searches of the model: a route of the mock table from the form, a
\* route the table does not have, a deal, and parameters searchFlights
\* refuses when a key is configured.
ContextSearchInputs ==
    { FormParams("JFK", "LAX"), FormParams("JFK", "SFO"),
      DealParams("Los Angeles (LAX)", "New York (JFK)", "LAX", "JFK"),
      NoEntityParams }

ApiFlights ==
    << Raw("api-1", "Delta Airlines", "22:00", "02:00", "", "", "", FALSE, 0, TRUE, 3, 120, 0, FALSE),
       Raw("", "", "08:00", "13:30", "JFK", "LAX", "5h 30m", TRUE, 0, FALSE, 0, 0, 999, TRUE),
       Raw("api-3", "JetBlue", "09:00", "15:00", "JFK", "LAX", "", TRUE, 1, FALSE, 0, 455, 0, FALSE) >>

\* The responses to a search request in the context model.
ContextOutcomes ==
    { Ok(Body("data.data", ApiFlights)),
      Fails(HttpError(429)),
      Fails(MkError("TypeError", "TypeError", MSG_FETCH)) }

\* A response whose first record carries no price field: the normalizer
\* gives that flight the price 0.
UnpricedFlights ==
    << Raw("api-4", "Spirit Airlines", "", "", "JFK", "LAX", "6h 10m", TRUE, 1, FALSE, 0, 0, 0, FALSE),
       Raw("api-5", "United Airlines", "07:00", "10:00", "JFK", "LAX", "", TRUE, 0, FALSE, 0, 250, 0, FALSE) >>

\* The responses to a search request in Spec.
PanelOutcomes == ContextOutcomes \cup { Ok(Body("array", UnpricedFlights)) }

Init == InitCalls /\ InitContext /\ InitHealth /\ InitInput /\ InitResults /\ InitStatus

Next ==
    \/ \E params \in ContextSearchInputs : performSearch(params)
    \/ \E c \in CallIds : RequestSettles(c, PanelOutcomes)
    \/ \E c \in CallIds : BackoffElapsed(c)
    \/ \E c \in CallIds : ImportSettles(c)
    \/ \E c \in CallIds : CompleteSearch(c)
    \/ \E newFilters \in FilterPatches : setFilters(newFilters)
    \/ clearFilters

Spec == Init /\ [][Next]_vars

(***************************************************************************)
(* The health prober: checkApiHealth and its module-level cache.           *)
(*   pc of an invocation: "idle"; "probing": the probe request is in       *)
(*   flight; "done": the promise has resolved with `result`                *)
(*   timestamp     Date.now() at the call                                  *)
(*   cacheAtStart  cachedHealthCheck at the call                           *)
(*   probed        the invocation has issued a probe request               *)
(*   ticked        the clock has advanced while the probe was in flight    *)
(*   outcome       what the probe request was answered with                *)
(***************************************************************************)
CACHE_DURATION == 5 * 60 * 1000

\* The clock of the model advances by a minute.
TickMs == 60 * 1000

ApiHealthResult(status, message, timestamp, usingMockData, apiKeyConfigured) ==
    [status |-> status, message |-> message, timestamp |-> timestamp,
     usingMockData |-> usingMockData, apiKeyConfigured |-> apiKeyConfigured]

\* isCacheValid with the comparison turned around.
isCacheValid_inverted(cached, dateNow) == dateNow - cached.timestamp > CACHE_DURATION

\* isCacheValid(cached), dateNow being Date.now().
isCacheValid(cached, dateNow) == dateNow - cached.timestamp < CACHE_DURATION

\* The probe request has one of these outcomes: a 2xx response, a response
\* with another status, or a failed or aborted (5 s) fetch.
ProbeOutcomes ==
    { [kind |-> "ok", status |-> 200], [kind |-> "status", status |-> 429],
      [kind |-> "status", status |-> 500], [kind |-> "status", status |-> 403],
      [kind |-> "error", status |-> 0] }

\* ProbeResult with every response that is not 2xx taken for a rate limit.
ProbeResult_allOffline(out, timestamp) ==
    CASE out.kind = "ok" ->
           ApiHealthResult("online", "Connected to RapidAPI", timestamp, FALSE, TRUE)
      [] out.kind = "status" ->
           ApiHealthResult("offline", "Rate limit exceeded - using mock data",
                           timestamp, TRUE, TRUE)
      [] out.kind = "error" ->
           ApiHealthResult("mock", "API unavailable - using mock data", timestamp, TRUE, TRUE)

\* The result checkApiHealth builds for the outcome of its probe.
ProbeResult(out, timestamp) ==
    CASE out.kind = "ok" ->
           ApiHealthResult("online", "Connected to RapidAPI", timestamp, FALSE, TRUE)
      [] out.kind = "status" /\ out.status = 429 ->
           ApiHealthResult("offline", "Rate limit exceeded - using mock data",
                           timestamp, TRUE, TRUE)
      [] out.kind = "status" /\ out.status # 429 ->
           ApiHealthResult("online",
                           "API returned " \o StatusDigits(out.status)
                               \o " - mock data fallback active",
                           timestamp, TRUE, TRUE)
      [] out.kind = "error" ->
           ApiHealthResult("mock", "API unavailable - using mock data", timestamp, TRUE, TRUE)

\* The key test of checkApiHealth without the trim.
KeyMissing_untrimmed == RAPID_API_KEY = ""

\* !RAPID_API_KEY || RAPID_API_KEY.trim() === ''
KeyMissing == RAPID_API_KEY = "" \/ Trim(RAPID_API_KEY) = ""

\* checkApiHealth(skipCache) up to its return or its await of the probe.
checkApiHealth(h, skipCache) ==
    /\ health[h].pc = "idle"
    /\ \A g \in HealthIds : g < h => health[g].pc # "idle"
    /\ LET timestamp == now
           started == [IdleHealth EXCEPT !.skipCache = skipCache, !.timestamp = timestamp,
                                         !.cacheAtStart = cachedHealthCheck]
       IN IF ~skipCache /\ cachedHealthCheck # None /\ isCacheValid(cachedHealthCheck[1], now)
          THEN /\ health' = [health EXCEPT ![h] =
                      [started EXCEPT !.pc = "done", !.result = cachedHealthCheck]]
               /\ UNCHANGED <<cachedHealthCheck, probes>>
          ELSE IF KeyMissing
               THEN LET result == ApiHealthResult("mock",
                                      "API key not configured - using mock data",
                                      timestamp, TRUE, FALSE)
                    IN /\ cachedHealthCheck' = Some(result)
                       /\ health' = [health EXCEPT ![h] =
                              [started EXCEPT !.pc = "done", !.result = Some(result)]]
                       /\ UNCHANGED probes
               ELSE /\ health' = [health EXCEPT ![h] =
                           [started EXCEPT !.pc = "probing", !.probed = TRUE]]
                    /\ probes' = probes + 1
                    /\ UNCHANGED cachedHealthCheck
    /\ UNCHANGED <<resultsPage, appStatus, input, RAPID_API_KEY, mockModule, calls, order, ctxVars, now>>

\* ProbeSettles with the result of a 429 written to the cache like the others.
ProbeSettles_caches429(h) ==
    /\ health[h].pc = "probing"
    /\ \E out \in ProbeOutcomes :
         LET result == ProbeResult(out, health[h].timestamp) IN
         /\ health' = [health EXCEPT ![h].pc = "done", ![h].outcome = out,
                                      ![h].result = Some(result)]
         /\ cachedHealthCheck' = Some(result)
    /\ UNCHANGED <<resultsPage, appStatus, input, RAPID_API_KEY, mockModule, calls, order, ctxVars, now, probes>>

\* The probe settles: every result but that of a 429 goes into the cache.
ProbeSettles(h) ==
    /\ health[h].pc = "probing"
    /\ \E out \in ProbeOutcomes :
         LET result == ProbeResult(out, health[h].timestamp) IN
         /\ health' = [health EXCEPT ![h].pc = "done", ![h].outcome = out,
                                      ![h].result = Some(result)]
         /\ cachedHealthCheck' = IF out.kind = "status" /\ out.status = 429
                                 THEN cachedHealthCheck
                                 ELSE Some(result)
    /\ UNCHANGED <<resultsPage, appStatus, input, RAPID_API_KEY, mockModule, calls, order, ctxVars, now, probes>>

invalidateHealthCache ==
    /\ cachedHealthCheck # None
    /\ cachedHealthCheck' = None
    /\ UNCHANGED <<resultsPage, appStatus, input, RAPID_API_KEY, mockModule, calls, order, ctxVars, now, probes, health>>

\* A minute passes.  A probe is aborted after five seconds, so the clock
\* advances at most once while a probe is in flight.
Tick ==
    /\ now < MaxTicks * TickMs
    /\ \A h \in HealthIds : health[h].pc = "probing" => ~health[h].ticked
    /\ now' = now + TickMs
    /\ health' = [h \in HealthIds |->
                    IF health[h].pc = "probing" THEN [health[h] EXCEPT !.ticked = TRUE]
                    ELSE health[h]]
    /\ UNCHANGED <<resultsPage, appStatus, input, RAPID_API_KEY, mockModule, calls, order, ctxVars, cachedHealthCheck, probes>>

InitHealthSpec == InitCalls /\ InitContext /\ InitHealth /\ InitInput /\ InitResults /\ InitStatus

NextHealth ==
    \/ \E h \in HealthIds, skipCache \in BOOLEAN : checkApiHealth(h, skipCache)
    \/ \E h \in HealthIds : ProbeSettles(h)
    \/ invalidateHealthCache
    \/ Tick

SpecHealth == InitHealthSpec /\ [][NextHealth]_vars

\* C10: a call checkApiHealth(false) made while the cache holds a result
\* younger than five minutes returns that result unchanged and issues no
\* probe request (and leaves the cache as it is).
C10_CachedResultReturned ==
    \A h \in HealthIds :
        LET call == health[h] IN
        (/\ call.pc # "idle"
         /\ ~call.skipCache
         /\ call.cacheAtStart # None
         /\ call.timestamp - call.cacheAtStart[1].timestamp < 5 * 60 * 1000)
        => /\ call.pc = "done"
           /\ call.result = call.cacheAtStart
           /\ ~call.probed

\* Four minutes after a probe found the API online a call got the cached
\* result, with the timestamp of that probe, and the probe counter stands at 1.
C10_Witness ==
    \E h \in HealthIds :
        /\ health[h].pc = "done"
        /\ ~health[h].skipCache
        /\ ~health[h].probed
        /\ health[h].cacheAtStart # None
        /\ health[h].result = health[h].cacheAtStart
        /\ health[h].result[1].status = "online"
        /\ health[h].timestamp - health[h].result[1].timestamp = 4 * 60 * 1000
        /\ cachedHealthCheck = health[h].result
        /\ probes = 1

\* The step in which invocation h of checkApiHealth begins, and the step in
\* which its probe request is answered.
StartsHealth(h) == health[h].pc = "idle" /\ health'[h].pc # "idle"
ProbeAnswered(h) == health[h].pc = "probing" /\ health'[h].pc = "done"

RateLimited(call) == call.outcome.kind = "status" /\ call.outcome.status = 429

\* Invocation h begins when the invocation before it, the last one started,
\* has returned the result of a probe answered with 429.
FollowsRateLimit(h) ==
    /\ h - 1 \in HealthIds
    /\ StartsHealth(h)
    /\ health[h - 1].pc = "done"
    /\ RateLimited(health[h - 1])

\* What a probe answered with 429 returns.
OfflineResult(call) ==
    /\ call.result # None
    /\ call.result[1].status = "offline"
    /\ call.result[1].usingMockData
    /\ call.result[1].timestamp = call.timestamp

\* checkApiHealth(skipCache) called now is answered from the cache.
AnsweredFromCache(skipCache) ==
    /\ ~skipCache
    /\ cachedHealthCheck # None
    /\ isCacheValid(cachedHealthCheck[1], now)

\* C11 as the claim states it: a probe answered with 429 returns status
\* offline with usingMockData true, its result is not written to the cache,
\* and the next call of checkApiHealth issues a probe request.
C11_RateLimitNotCached ==
    [][\A h \in HealthIds :
         /\ (ProbeAnswered(h) /\ RateLimited(health'[h])) =>
                /\ OfflineResult(health'[h])
                /\ cachedHealthCheck' # health'[h].result
         /\ FollowsRateLimit(h) => health'[h].probed]_vars

\* C11, amended: a probe answered with 429 returns status offline with
\* usingMockData true and leaves the cache as it was, so the cache never
\* holds an offline result; the next call issues a probe request unless it is
\* a call with skipCache=false and the cache still holds the result of
\* another call, younger than five minutes, which it then returns.
C11_RateLimitLeavesCache ==
    /\ [][\A h \in HealthIds :
            /\ (ProbeAnswered(h) /\ RateLimited(health'[h])) =>
                   /\ OfflineResult(health'[h])
                   /\ cachedHealthCheck' = cachedHealthCheck
            /\ FollowsRateLimit(h) =>
                   IF AnsweredFromCache(health'[h].skipCache)
                   THEN /\ ~health'[h].probed
                        /\ health'[h].result = cachedHealthCheck
                        /\ cachedHealthCheck # health[h - 1].result
                   ELSE health'[h].probed]_vars
    /\ [](cachedHealthCheck # None => cachedHealthCheck[1].status # "offline")

\* The first probe was answered with 429, nothing was cached, and the second
\* call, made with skipCache=false a minute later, has issued a probe of its own.
C11_Witness ==
    /\ health[1].pc = "done"
    /\ RateLimited(health[1])
    /\ OfflineResult(health[1])
    /\ health[2].pc = "probing"
    /\ ~health[2].skipCache
    /\ health[2].cacheAtStart = None
    /\ health[2].timestamp = health[1].timestamp + TickMs
    /\ cachedHealthCheck = None
    /\ probes = 2

\* The key is configured: it is not empty after trimming.
KeyConfigured == RAPID_API_KEY # "" /\ Trim(RAPID_API_KEY) # ""

\* Invocation `call` was not answered from the cache.
NotServedFromCache(call) ==
    \/ call.skipCache
    \/ call.cacheAtStart = None
    \/ call.timestamp - call.cacheAtStart[1].timestamp >= 5 * 60 * 1000

\* C12: a health check with an API key that is not served from the cache
\* issues a probe, and when the probe is answered with anything but 429 the
\* result is fixed by the outcome and written to the cache: 2xx gives online
\* with usingMockData false, another status online with usingMockData true,
\* a network error or the timeout mock with usingMockData true.
C12_ProbeOutcomeCached ==
    /\ [](\A h \in HealthIds :
            (health[h].pc # "idle" /\ KeyConfigured /\ NotServedFromCache(health[h]))
                => health[h].probed)
    /\ [][\A h \in HealthIds :
            (ProbeAnswered(h) /\ ~RateLimited(health'[h])) =>
                LET out == health'[h].outcome
                    result == health'[h].result[1]
                IN /\ KeyConfigured
                   /\ NotServedFromCache(health[h])
                   /\ out.kind = "ok" =>
                          result.status = "online" /\ ~result.usingMockData
                   /\ out.kind = "status" =>
                          result.status = "online" /\ result.usingMockData
                   /\ out.kind = "error" =>
                          result.status = "mock" /\ result.usingMockData
                   /\ result.apiKeyConfigured
                   /\ result.timestamp = health[h].timestamp
                   /\ cachedHealthCheck' = health'[h].result]_vars

\* A probe answered with 403 gave online with usingMockData true, and the
\* result is in the cache.
C12_Witness ==
    \E h \in HealthIds :
        /\ health[h].pc = "done"
        /\ health[h].probed
        /\ health[h].outcome = [kind |-> "status", status |-> 403]
        /\ health[h].result[1].status = "online"
        /\ health[h].result[1].usingMockData
        /\ cachedHealthCheck = health[h].result

\* C22: with no API key configured (the key empty or white space only) every
\* checkApiHealth call resolves with status mock, usingMockData true and
\* apiKeyConfigured false, from the cache or not, and no probe request is
\* ever issued or in flight.
C22_NoKeyNoProbe ==
    ~KeyConfigured =>
        /\ probes = 0
        /\ \A h \in HealthIds :
             /\ health[h].pc # "probing"
             /\ ~health[h].probed
             /\ health[h].pc = "done" =>
                  /\ health[h].result # None
                  /\ health[h].result[1].status = "mock"
                  /\ health[h].result[1].usingMockData
                  /\ ~health[h].result[1].apiKeyConfigured

\* With a key of white space only, one call has built the mock result and a
\* later one has skipped the cache and built it again.
C22_Witness ==
    /\ RAPID_API_KEY = " "
    /\ \E g, h \in HealthIds :
         /\ g < h
         /\ health[g].pc = "done" /\ health[h].pc = "done"
         /\ health[h].skipCache
         /\ health[h].result[1].timestamp > health[g].result[1].timestamp
         /\ health[h].result[1].status = "mock"
         /\ probes = 0

\* C13: of the calls checkApiHealth() (skipCache=false) made within one
\* five-minute window, at most one issues a probe request, overlapping calls
\* included.
C13_OneProbePerWindow ==
    \A g, h \in HealthIds :
        (/\ g < h
         /\ health[g].pc # "idle" /\ ~health[g].skipCache
         /\ health[h].pc # "idle" /\ ~health[h].skipCache
         /\ health[h].timestamp - health[g].timestamp < 5 * 60 * 1000)
        => ~(health[g].probed /\ health[h].probed)

(***************************************************************************)
(* Properties of the exported functions (SpecApi).                         *)
(***************************************************************************)
Finished(call) == call.pc \in { "settled", "done" }

Endpoints == { "searchFlights", "getNearByAirports", "getPriceCalendar" }

\* The messages of the argument checks of the three endpoints.
ArgumentCheckMessages ==
    { MSG_MISSING_PARAMS, MSG_LAT_LNG_TYPE, MSG_LAT_RANGE, MSG_LNG_RANGE, MSG_CALENDAR_ARGS }

RejectedByArgumentCheck(call) ==
    /\ call.result.error.message \in ArgumentCheckMessages
    /\ call.invoked = 0
    /\ call.apiCalls = 0
    /\ call.mockCalls = 0

\* C1: searchFlights, getNearByAirports and getPriceCalendar never reject
\* whatever the API does; a rejection only comes from an argument check made
\* before any network request was issued (and before any other work).
C1_RejectsOnlyOnArgumentCheck ==
    \A c \in CallIds :
        (calls[c].fn \in Endpoints /\ calls[c].result.state = "rejected")
            => RejectedByArgumentCheck(calls[c])

\* Every error of the sequence is an Error object carrying status s.
AllStatus(errs, s) ==
    \A i \in 1..Len(errs) : errs[i].isError /\ errs[i].hasStatus /\ errs[i].status = s

Retried(call, i) == call.invoked > i \/ (i = Len(call.errs) /\ call.pc = "backoff")

\* C14: when apiRequestWithRetry gives up, because the error is not retryable
\* or because maxRetries + 1 attempts have failed, it rejects with the error
\* thrown by the most recent attempt; after an error that is not retryable
\* requestFn is not invoked again and no delay is started.
C14_RethrowsLastError ==
    \A c \in CallIds :
        LET call == calls[c]
            n == Len(call.errs)
            codes == call.cfg.retryableStatusCodes
        IN call.fn = "apiRequestWithRetry" =>
             /\ call.result.state = "rejected" =>
                    /\ n > 0
                    /\ call.invoked = n
                    /\ call.result.error = call.errs[n]
                    /\ \/ n = call.cfg.maxRetries + 1
                       \/ ~isRetryableError(call.errs[n], codes)
             /\ \A i \in 1..n :
                    ~isRetryableError(call.errs[i], codes) =>
                        /\ i = n
                        /\ ~Retried(call, i)
                        /\ call.result = Rejected(call.errs[i])
             /\ (n = call.cfg.maxRetries + 1) => call.result = Rejected(call.errs[n])

\* With maxRetries = 2 the first attempt failed with 503 and was retried, the
\* second failed with 404, which is not retryable: the call has rejected with
\* the 404 error after two invocations and one delay.
C14_Witness ==
    \E c \in CallIds :
        /\ calls[c].fn = "apiRequestWithRetry"
        /\ calls[c].cfg = DEFAULT_CONFIG
        /\ calls[c].errs = << HttpError(503), HttpError(404) >>
        /\ calls[c].invoked = 2
        /\ calls[c].waits = 1
        /\ calls[c].result = Rejected(HttpError(404))

\* The statuses the decision never retries.
NeverRetried == { 400, 401, 402, 403, 429 }

\* A failed fetch: the TypeError of a network failure.
NetworkTypeError(e) == e.isError /\ e.type = "TypeError" /\ e.hasStatus = FALSE

\* The decision as the claim states it.
RetryableAsClaimed(e, codes) ==
    IF e.isError /\ e.hasStatus /\ e.status \in NeverRetried THEN FALSE
    ELSE \/ NetworkTypeError(e)
         \/ ~(e.isError /\ e.hasStatus)
         \/ e.status \in codes

C20_NormalizedNonNegative ==
    \A c \in CallIds :
        (calls[c].fn = "searchFlights" /\ Finished(calls[c])
         /\ calls[c].result.state = "resolved" /\ calls[c].result.source = "api") =>
            \A i \in 1..Len(calls[c].result.value) :
                /\ calls[c].result.value[i].price >= 0
                /\ calls[c].result.value[i].stops >= 0

\* The raw flight list a search result was normalized from: the records of
\* the model are told apart by the ids the normalizer keeps or derives.
RawListOf(value) ==
    CHOOSE l \in RawFlightLists :
        /\ Len(l) = Len(value)
        /\ \A i \in 1..Len(l) :
              value[i].id = OrElse(l[i].id, "flight-" \o NumberText(i - 1))

\* The hours and minutes from one clock time forward to the next occurrence
\* of another, written "{h}h {m}m".
ForwardDuration(dep, arr) ==
    LET hm == CHOOSE e \in (0..23) \X (0..59) :
                  (HourOf(dep) * 60 + MinuteOf(dep) + e[1] * 60 + e[2]) % (24 * 60)
                      = HourOf(arr) * 60 + MinuteOf(arr)
    IN NumberText(hm[1]) \o "h " \o NumberText(hm[2]) \o "m"

\* C23: a raw flight without an explicit duration but with departure and
\* arrival clock times HH:MM is normalized to the duration "{h}h {m}m" of
\* (arrival - departure) minutes, with 24 hours added when the arrival is
\* earlier than the departure; 22:00 to 02:00 gives "4h 0m".
C23_DurationBackfill ==
    \A c \in CallIds :
        (calls[c].fn = "searchFlights" /\ Finished(calls[c])
         /\ calls[c].result.state = "resolved" /\ calls[c].result.source = "api") =>
            LET value == calls[c].result.value
                raw == RawListOf(value)
            IN \A i \in 1..Len(value) :
                 (raw[i].duration = "" /\ raw[i].departureTime # "" /\ raw[i].arrivalTime # "") =>
                     /\ value[i].duration = ForwardDuration(raw[i].departureTime, raw[i].arrivalTime)
                     /\ (raw[i].departureTime = "22:00" /\ raw[i].arrivalTime = "02:00")
                           => value[i].duration = "4h 0m"

C23_Witness ==
    \E c \in CallIds :
        /\ calls[c].fn = "searchFlights" /\ Finished(calls[c])
        /\ calls[c].result.state = "resolved" /\ calls[c].result.source = "api"
        /\ calls[c].result.value[1].departureTime = "22:00"
        /\ calls[c].result.value[1].arrivalTime = "02:00"
        /\ calls[c].result.value[1].duration = "4h 0m"

\* The calls that have entered withMockFallback.
ThroughWithMockFallback(call) ==
    \/ call.fn = "withMockFallback"
    \/ /\ call.fn \in { "getNearByAirports", "getPriceCalendar" }
       /\ call.apiCalls + call.mockCalls > 0

\* C21: isApiConfigured() is true exactly when the build-time API key is
\* non-empty after trimming white space; a key of white space only counts as
\* not configured.
C21_ConfiguredIffTrimmedNonEmpty ==
    isApiConfigured <=> Trim(RAPID_API_KEY) # ""

\* C4: when the API key is empty after trimming white space, withMockFallback
\* never invokes apiCall, and it resolves with exactly the value getMockData
\* produces.
C4_NoApiCallWithoutKey ==
    Trim(RAPID_API_KEY) = "" =>
        \A c \in CallIds :
            LET call == calls[c] IN
            ThroughWithMockFallback(call) =>
                /\ call.apiCalls = 0
                /\ call.invoked = 0
                /\ (Finished(call) /\ MockData(call).ok) =>
                       call.result = Resolved("mock", MockData(call).value)

\* C5: the promise withMockFallback returns never rejects, whatever apiCall
\* and getMockData do.
C5_WithMockFallbackNeverRejects ==
    \A c \in CallIds :
        ThroughWithMockFallback(calls[c]) => calls[c].result.state # "rejected"


(***************************************************************************)
(* Properties of the search context (Spec, FairSpec).                      *)
(***************************************************************************)
\* The step in which the continuation of search c runs.
Completes(c) == calls[c].pc = "settled" /\ calls'[c].pc = "done"

\* Every request the call has issued failed with the TypeError of fetch.
AllNetworkFailures(call) ==
    /\ Len(call.errs) = call.invoked
    /\ \A i \in 1..Len(call.errs) :
         call.errs[i].type = "TypeError" /\ call.errs[i].message = MSG_FETCH

\* The IATA pair a search asks for.
RequestedOrigin(params) == extractIATACode(OrElse(params.from, params.originSkyId))
RequestedDestination(params) == extractIATACode(OrElse(params.to, params.destinationSkyId))

OnRequestedRoute(fs, params) ==
    \A i \in 1..Len(fs) :
        /\ fs[i].departureAirport = RequestedOrigin(params)
        /\ fs[i].arrivalAirport = RequestedDestination(params)

InMockTable(params) ==
    \E n \in 1..Len(MockRoutes) :
        /\ MockRoutes[n].origin = RequestedOrigin(params)
        /\ MockRoutes[n].destination = RequestedDestination(params)

\* C2 as the claim states it: a search with sky and entity ids whose API
\* requests all fail with a network error completes with a non-empty flight
\* list on the requested IATA pair, and with error null.
C2_NonEmptyMockFlights ==
    [][\A c \in CallIds :
         (Completes(c) /\ HasIds(calls[c].args) /\ AllNetworkFailures(calls[c])) =>
             /\ flights' # << >>
             /\ OnRequestedRoute(flights', calls[c].args)
             /\ error' = NULL]_vars

\* C2, amended: such a search completes by storing the flights the mock table
\* has for the requested IATA pair: every stored flight is on that pair, the
\* list is non-empty exactly when the table has the route, and the completion
\* leaves the error state as it was.  Only when the mock data module cannot
\* be loaded does it store no flights and the message of the import error.
C2_MockFlightsOfRequestedPair ==
    [][\A c \in CallIds :
         (Completes(c) /\ HasIds(calls[c].args) /\ AllNetworkFailures(calls[c])) =>
             IF calls[c].result.state = "resolved"
             THEN /\ calls[c].result.source = "mock"
                  /\ OnRequestedRoute(flights', calls[c].args)
                  /\ flights' # << >> <=> InMockTable(calls[c].args)
                  /\ \A i \in 1..Len(flights') :
                       flights'[i].departureDate = calls[c].args.departure
                  /\ error' = error
             ELSE /\ flights' = << >>
                  /\ error' = MSG_IMPORT]_vars

\* The key is configured, the three requests of the search failed with a
\* network error, and the search has stored the mock flights JFK -> LAX.
C2_Witness ==
    \E c \in CallIds :
        /\ calls[c].pc = "done"
        /\ calls[c].args = FormParams("JFK", "LAX")
        /\ calls[c].invoked = 3
        /\ AllNetworkFailures(calls[c])
        /\ flights = calls[c].result.value
        /\ Len(flights) = 8
        /\ OnRequestedRoute(flights, calls[c].args)
        /\ error = NULL

Started == { order[i] : i \in 1..Len(order) }

\* What a search alone leaves in flights and error.
FlightsOf(call) == IF call.result.state = "resolved" THEN call.result.value ELSE << >>
ErrorOf(call) ==
    IF call.result.state = "resolved" THEN NULL
    ELSE IF call.result.error.isError THEN call.result.error.message
         ELSE MSG_SEARCH_FAILED

\* C6: once every search that was started has completed, flights and error
\* are those of the search started last (the one held in searchParams),
\* whatever order the responses arrived in.
C6_LatestSearchWins ==
    (order # << >> /\ \A c \in Started : calls[c].pc = "done") =>
        LET latest == calls[order[Len(order)]] IN
        /\ searchParams = Some(latest.args)
        /\ flights = FlightsOf(latest)
        /\ error = ErrorOf(latest)

\* C7: every search that is started completes, and the step that completes
\* it leaves isLoading false, on the success path and on the failure path.
C7_LoadingCleared ==
    /\ \A c \in CallIds : (calls[c].pc \notin { "idle", "done" }) ~> (calls[c].pc = "done")
    /\ [][\A c \in CallIds : Completes(c) => isLoading' = FALSE]_vars

\* A search that failed has completed and loading is cleared.
C7_Witness ==
    \E c \in CallIds :
        /\ calls[c].pc = "done"
        /\ calls[c].result.state = "rejected"
        /\ error = calls[c].result.error.message
        /\ isLoading = FALSE

\* C8: when searchFlights fails inside performSearch, the error stored is the
\* message handleApiError produces for the caught error, and flights is empty.
C8_ClassifiedErrorStored ==
    [][\A c \in CallIds :
         (Completes(c) /\ calls[c].result.state = "rejected") =>
             /\ error' = handleApiError(calls[c].result.error)
             /\ flights' = << >>]_vars

\* The bounds of the positive prices of a result set, in hundreds.
IsBoundsOf(range, fs) ==
    LET prices == { fs[i].price : i \in 1..Len(fs) } \ { p \in { fs[i].price : i \in 1..Len(fs) } : p <= 0 } IN
    /\ range.min % 100 = 0
    /\ range.max % 100 = 0
    /\ \A p \in prices : range.min <= p /\ p <= range.max
    /\ \E p \in prices : p < range.min + 100
    /\ \E p \in prices : p > range.max - 100

ShowsFilteredOnce ==
    /\ \A i, j \in 1..Len(filteredFlights) : i # j => filteredFlights[i] # filteredFlights[j]
    /\ { filteredFlights[i] : i \in 1..Len(filteredFlights) }
         = { flights[k] : k \in { n \in 1..Len(flights) : PassesFilters(flights[n], filters) } }

IndexOf(flight) == CHOOSE k \in 1..Len(flights) : flights[k] = flight

BestRank(flight) == IF flight.best THEN 0 ELSE 1

NonStopRank(flight) == IF flight.stops = 0 THEN 0 ELSE 1

\* C17 as the claim states it: under the 'best' sort the flights shown are in
\* the lexicographic order of (best flag, number of stops, price), best
\* first, fewer stops before more, lower price before higher, and flights
\* equal on the three keys are in the order they have in the stored list.
C17_BestStopsPriceOrder ==
    sortOption = "best" =>
        /\ ShowsFilteredOnce
        /\ \A i, j \in 1..Len(filteredFlights) :
             i < j =>
               LET a == filteredFlights[i]
                   b == filteredFlights[j]
               IN \/ BestRank(a) < BestRank(b)
                  \/ BestRank(a) = BestRank(b) /\ a.stops < b.stops
                  \/ BestRank(a) = BestRank(b) /\ a.stops = b.stops /\ a.price < b.price
                  \/ BestRank(a) = BestRank(b) /\ a.stops = b.stops /\ a.price = b.price
                     /\ IndexOf(a) < IndexOf(b)

\* C17, amended: under the 'best' sort the flights shown are in the
\* lexicographic order of (best flag, non-stop flag, price): flights marked
\* best first, then non-stop flights before flights with one or more stops
\* (how many stops makes no difference), then lower price before higher;
\* flights equal on the three keys are in the order of the stored list.
C17_BestNonStopPriceOrder ==
    sortOption = "best" =>
        /\ ShowsFilteredOnce
        /\ \A i, j \in 1..Len(filteredFlights) :
             i < j =>
               LET a == filteredFlights[i]
                   b == filteredFlights[j]
               IN \/ BestRank(a) < BestRank(b)
                  \/ BestRank(a) = BestRank(b) /\ NonStopRank(a) < NonStopRank(b)
                  \/ BestRank(a) = BestRank(b) /\ NonStopRank(a) = NonStopRank(b)
                     /\ a.price < b.price
                  \/ BestRank(a) = BestRank(b) /\ NonStopRank(a) = NonStopRank(b)
                     /\ a.price = b.price /\ IndexOf(a) < IndexOf(b)

\* The three flights of the API, stored as (two stops, 120), (best, non-stop,
\* 999), (one stop, 455), are shown best first, then the two with stops by
\* price.
C17_Witness ==
    /\ sortOption = "best"
    /\ Len(flights) = 3
    /\ Len(filteredFlights) = 3
    /\ filteredFlights[1] = flights[2]
    /\ filteredFlights[2] = flights[1]
    /\ filteredFlights[3] = flights[3]
    /\ flights[1].stops = 2 /\ flights[3].stops = 1

\* C18: clearFilters() puts the stops, airlines, departure-time, arrival-time
\* and duration criteria back to their defaults and makes the price range
\* the one recomputed from the flights stored at the call (the hundreds
\* around their lowest and highest positive price), which is the default
\* range only when no stored flight has a positive price.
C18_ClearFiltersRecomputesRange ==
    [][clearFilters =>
         /\ filters'.stops = defaultFilters.stops
         /\ filters'.airlines = defaultFilters.airlines
         /\ filters'.departureTimes = defaultFilters.departureTimes
         /\ filters'.arrivalTimes = defaultFilters.arrivalTimes
         /\ filters'.duration = defaultFilters.duration
         /\ IF \E i \in 1..Len(flights) : flights[i].price > 0
            THEN IsBoundsOf(filters'.priceRange, flights)
            ELSE filters'.priceRange = [min |-> 0, max |-> DEFAULT_PRICE_MAX]]_vars

\* clearFilters was the last call of the filters, the three flights of the
\* API are stored, and the price range is 100..1000, not 0..10000.
C18_Witness ==
    /\ panel = "clearFilters"
    /\ Len(flights) = 3
    /\ \A c \in CallIds : calls[c].pc \in { "idle", "done" }
    /\ filters = [defaultFilters EXCEPT !.priceRange = [min |-> 100, max |-> 1000]]

\* Math.floor(p / 100) * 100 and Math.ceil(p / 100) * 100 of a whole price.
FloorHundred(p) == p - (p % 100)

CeilHundred(p) == IF p % 100 = 0 THEN p ELSE p - (p % 100) + 100

PriceSet(fs) == { fs[i].price : i \in 1..Len(fs) }

Lowest(S) == CHOOSE x \in S : \A y \in S : x <= y

Highest(S) == CHOOSE x \in S : \A y \in S : x >= y

C27_ErrorImpliesNoFlights ==
    error # NULL => flights = << >>

\* The searches that have been started and whose continuation has not run.
PendingSearches == { c \in Started : calls[c].pc # "done" }

\* C28: isLoading is true in every state in which at least one performSearch
\* call has been started and has not yet completed, also when several calls
\* overlap and one of them finishes before the others.
C28_LoadingWhilePending ==
    PendingSearches # { } => isLoading

\* No stops, airline, time-of-day or duration filter is active.
OnlyPriceFilter(f) ==
    /\ f.stops = { } /\ f.airlines = { }
    /\ f.departureTimes = { } /\ f.arrivalTimes = { }
    /\ f.duration = 0

\* C30: immediately after a successful search, when no stops, airline,
\* time-of-day or duration filter is active, every flight of the stored
\* result set lies within filters.priceRange, so filteredFlights contains
\* all flights of the result set whatever their prices.
C30_AllFlightsShownAfterSearch ==
    [][\A c \in CallIds :
         (Completes(c) /\ calls[c].result.state = "resolved" /\ OnlyPriceFilter(filters')) =>
             /\ \A i \in 1..Len(flights') :
                  /\ flights'[i].price >= filters'.priceRange.min
                  /\ flights'[i].price <= filters'.priceRange.max
             /\ Len(getFilteredFlights(flights', filters', sortOption')) = Len(flights')]_vars

(***************************************************************************)
(* FairSpec: the searches of the context with the progress the runtime     *)
(* provides: a fetch and a dynamic import settle, a timer fires, and the   *)
(* continuation of a settled promise is run.  At most one step of a call   *)
(* is enabled at a time, its pc deciding which.  The filter panel, which   *)
(* touches neither the calls nor isLoading, is left out.                   *)
(***************************************************************************)
CallStep(c) ==
    \/ RequestSettles(c, ContextOutcomes)
    \/ BackoffElapsed(c)
    \/ ImportSettles(c)
    \/ CompleteSearch(c)

NextSearch ==
    \/ \E params \in ContextSearchInputs : performSearch(params)
    \/ \E c \in CallIds : CallStep(c)

FairSpec == Init /\ [][NextSearch]_vars /\ \A c \in CallIds : WF_vars(CallStep(c))

(***************************************************************************)
(* pages/Deals.tsx, the Results page and the submit handler of SearchForm. *)
(* Navigating to /flights from another page mounts a new Results           *)
(* component, whose refs of useStrictModeDeduplication are unset; its      *)
(* effect runs after the mount and again after every render.  After the    *)
(* first run it cannot start a search: the search it started has made      *)
(* searchParams.from equal to the `from` of the location, and without the  *)
(* four ids it starts none.                                                *)
(***************************************************************************)
MaxVisits == 3

\* useStrictModeDeduplication: shouldExecute(key).
shouldExecute(s, key) == ~(s.hasExecuted /\ s.lastKey = key)

cityToAirportMap ==
    { [city |-> "New York", iata |-> "JFK", skyId |-> "JFK", entityId |-> "95565058"],
      [city |-> "Paris", iata |-> "CDG", skyId |-> "CDG", entityId |-> "95565061"],
      [city |-> "Los Angeles", iata |-> "LAX", skyId |-> "LAX", entityId |-> "95565060"],
      [city |-> "Tokyo", iata |-> "NRT", skyId |-> "NRT", entityId |-> "95565062"] }

NoMappedAirport == [city |-> "", iata |-> "", skyId |-> "", entityId |-> ""]

\* cityToAirportMap[city], NoMappedAirport standing for undefined.
AirportOfCity(city) ==
    IF \E a \in cityToAirportMap : a.city = city
    THEN CHOOSE a \in cityToAirportMap : a.city = city
    ELSE NoMappedAirport

\* The deals the user selects from: two with the same origin, one back, and
\* one whose origin the map does not have.
DealChoices ==
    { [id |-> "1", origin |-> "New York", destination |-> "Paris"],
      [id |-> "2", origin |-> "New York", destination |-> "Tokyo"],
      [id |-> "3", origin |-> "Los Angeles", destination |-> "New York"],
      [id |-> "4", origin |-> "Sydney", destination |-> "Paris"] }

InMap(deal) ==
    AirportOfCity(deal.origin) # NoMappedAirport /\ AirportOfCity(deal.destination) # NoMappedAirport

\* The searchParams of the location state handleSelectDeal navigates with;
\* getFutureDate(7) is a fixed date.
DealLocation(deal) ==
    LET originAirport == AirportOfCity(deal.origin)
        destAirport == AirportOfCity(deal.destination)
    IN Params(IF originAirport # NoMappedAirport
              THEN originAirport.city \o " (" \o originAirport.iata \o ")" ELSE deal.origin,
              IF destAirport # NoMappedAirport
              THEN destAirport.city \o " (" \o destAirport.iata \o ")" ELSE deal.destination,
              "2026-12-08", "", "round-trip",
              originAirport.skyId, destAirport.skyId,
              originAirport.entityId, destAirport.entityId)

\* !(!searchParams || searchParams.from !== locationSearchParams.from)
SearchedAlready(context, location) ==
    context # None /\ context[1].from = location.from

\* The effect of a Results page just mounted with the location state
\* `location` (None when there is none): the parameters it calls
\* performSearch with, or None.
ResultsEffect(location, context) ==
    LET loc == location[1]
        refs == [hasExecuted |-> FALSE, lastKey |-> ""]
        currentSearchKey == loc.from \o "-" \o loc.to \o "-" \o loc.departure
    IN IF location = None THEN None
       ELSE IF loc.from # "" /\ loc.to # "" /\ loc.departure # ""
               /\ ~SearchedAlready(context, loc)
            THEN IF ~shouldExecute(refs, currentSearchKey) THEN None
                 ELSE IF loc.originSkyId # "" /\ loc.destinationSkyId # ""
                         /\ loc.originEntityId # "" /\ loc.destinationEntityId # ""
                      THEN Some(Params(loc.from, loc.to, loc.departure, loc.return,
                                       IF loc.return # "" THEN "round-trip" ELSE "one-way",
                                       loc.originSkyId, loc.destinationSkyId,
                                       loc.originEntityId, loc.destinationEntityId))
                      ELSE None
            ELSE None

\* handleSelectDeal(dealId): navigate to /flights with the deal in the
\* location state; the Results page mounts and its effect runs.
handleSelectDeal(deal) ==
    LET location == Some(DealLocation(deal))
        page == [location |-> location, visits |-> resultsPage.visits + 1]
        search == ResultsEffect(location, searchParams)
    IN /\ resultsPage.visits < MaxVisits
       /\ IF search # None
          THEN performSearchFrom(search[1], page)
          ELSE /\ resultsPage' = page
               /\ UNCHANGED <<appStatus, input, RAPID_API_KEY, mockModule, calls, order,
                              ctxVars, healthVars>>

\* handleSubmit of SearchForm with valid fields and both airports selected:
\* navigate('/flights') without a location state, then performSearch.
handleSubmit(params) ==
    /\ ~isLoading
    /\ resultsPage.visits < MaxVisits
    /\ ResultsEffect(None, searchParams) = None
    /\ performSearchFrom(params, [location |-> None, visits |-> resultsPage.visits + 1])

\* What SearchForm passes to performSearch: `from` and `to` are the IATA
\* codes of the selected airports.
SubmitInputs ==
    { Params("JFK", "CDG", "2026-12-01", "", "one-way", "JFK", "CDG", "95565058", "95565061") }

NextResults ==
    \/ \E deal \in DealChoices : handleSelectDeal(deal)
    \/ \E params \in SubmitInputs : handleSubmit(params)
    \/ \E c \in CallIds : CallStep(c)

SpecResults == Init /\ [][NextResults]_vars

\* The search started last.
LatestSearch(cs, ord) == cs[ord[Len(ord)]]

\* C24: selecting a deal whose origin and destination are in the
\* city-to-airport map makes the Results page effect perform a flight search
\* for that deal's route, also when the search context already holds a
\* previous search, from the form or from another deal.
C24_DealSelectionSearches ==
    [][\A deal \in DealChoices :
         (/\ InMap(deal)
          /\ resultsPage'.visits = resultsPage.visits + 1
          /\ resultsPage'.location = Some(DealLocation(deal))) =>
             /\ Len(order') = Len(order) + 1
             /\ LatestSearch(calls', order').fn = "searchFlights"
             /\ LatestSearch(calls', order').args.originSkyId = AirportOfCity(deal.origin).skyId
             /\ LatestSearch(calls', order').args.destinationSkyId
                  = AirportOfCity(deal.destination).skyId
             /\ searchParams'[1].from = DealLocation(deal).from
             /\ searchParams'[1].to = DealLocation(deal).to]_vars

(***************************************************************************)
(* AutocompleteInput: the airport input of the search form.  Its value is  *)
(* the parent's state; useDebounce(value, 500) hands the effect the value   *)
(* once it has stayed unchanged for 500 ms.  The effect lists shouldExecute *)
(* and markExecuted, which useStrictModeDeduplication creates anew on       *)
(* every render, among its dependencies (and onSelect, a new function on    *)
(* every render of SearchForm), so it runs after every render.              *)
(***************************************************************************)
DEBOUNCE_DELAY == 500

\* Time advances in steps of half the delay.
StepMs == DEBOUNCE_DELAY \div 2

Airport(iata, city, name, country) ==
    [iata |-> iata, city |-> city, name |-> name, skyId |-> iata, country |-> country]

JFK == Airport("JFK", "New York", "John F. Kennedy International", "United States")
LGA == Airport("LGA", "New York", "LaGuardia", "United States")

formatAirportDisplay(airport) ==
    IF airport.iata # "" /\ airport.city # ""
    THEN airport.city \o " (" \o airport.iata \o ")"
    ELSE IF airport.skyId \in ThreeLetterCodes /\ airport.city # ""
         THEN airport.city \o " (" \o airport.skyId \o ")"
         ELSE IF airport.iata # ""
              THEN airport.name \o " (" \o airport.iata \o ")"
              ELSE airport.city \o ", " \o airport.country

\* What the user types or leaves in the input.
InputTexts == { "J", "JF", "JFK", "New York (JF", "New York (JFK)" }

\* text.toLowerCase().includes(part.toLowerCase()), for the texts and the
\* airport fields of the model.
LowerIncludesTable ==
    { << "JFK", "JFK" >>, << "New York (JFK)", "JFK" >>,
      << "New York (JFK)", "New York" >>, << "New York (JF", "New York" >> }

LowerIncludes(text, part) == << text, part >> \in LowerIncludesTable

\* What searchAirport resolves with.
AirportResults == { << >>, << JFK >>, << JFK, LGA >> }

\* The airport the effect selects by itself when the results arrive.
AutoSelected(results, debouncedValue) ==
    LET inputLower == Trim(debouncedValue)
        Exact(apt) ==
            \/ formatAirportDisplay(apt) = inputLower
            \/ /\ apt.iata # ""
               /\ LowerIncludes(inputLower, apt.iata)
               /\ LowerIncludes(inputLower, apt.city) \/ LowerIncludes(inputLower, apt.name)
    IN IF Len(results) = 1
       THEN IF \/ formatAirportDisplay(results[1]) = inputLower
               \/ results[1].iata # "" /\ LowerIncludes(inputLower, results[1].iata)
            THEN results[1] ELSE NoAirport
       ELSE IF \E i \in 1..Len(results) : Exact(results[i])
            THEN results[CHOOSE i \in 1..Len(results) :
                           Exact(results[i]) /\ \A j \in 1..(i - 1) : ~Exact(results[j])]
            ELSE NoAirport

\* useDebounce(value, 500) on a render with a new value: the pending timer is
\* cleared and one of 500 ms is set.
useDebounce(s, newValue) ==
    IF newValue = s.value THEN s
    ELSE [s EXCEPT !.value = newValue, !.pending = TRUE, !.elapsed = 0]

\* The cleanup and the first lines of fetchAirports, cancelling nothing.
searchAbort_ignored(s) == s

\* if (searchAbortRef.current) searchAbortRef.current(): the `cancelled`
\* variable of the effect run that set the ref becomes true.
searchAbort(s) ==
    [s EXCEPT !.inflight =
        [i \in 1..Len(s.inflight) |->
            IF s.inflight[i].id = s.searchAbort
            THEN [s.inflight[i] EXCEPT !.cancelled = TRUE] ELSE s.inflight[i]]]

\* The effect after a render: the cleanup of the run before, then
\* fetchAirports up to its await of searchAirport.
RunEffect(s) ==
    LET s1 == searchAbort(s)
        key == Trim(s.debouncedValue)
        id == Len(s.searches) + 1
    IN IF s.debouncedValue = "" \/ Len(key) < 2
       THEN [s1 EXCEPT !.suggestions = << >>, !.isOpen = FALSE, !.searchAbort = 0]
       ELSE IF s.selectedAirport # NoAirport /\ key = formatAirportDisplay(s.selectedAirport)
            THEN s1
            ELSE IF ~shouldExecute(s1, key) THEN s1
                 ELSE [s1 EXCEPT !.hasExecuted = TRUE, !.lastKey = key,
                                 !.searchAbort = id, !.isLoading = TRUE,
                                 !.inflight = Append(@, AirportSearch(id, key)),
                                 !.searches = Append(@, key)]

InputFrame == UNCHANGED <<RAPID_API_KEY, mockModule, calls, order, ctxVars, healthVars, resultsPage, appStatus>>

\* handleInputChange for a keystroke that makes the value newValue.
handleInputChange(newValue) ==
    /\ input.mounted
    /\ input.keys < MaxKeys
    /\ newValue # input.value
    /\ LET selectedDisplay == IF input.selectedAirport # NoAirport
                              THEN formatAirportDisplay(input.selectedAirport) ELSE ""
           s1 == useDebounce([input EXCEPT !.keys = @ + 1], newValue)
           s2 == IF input.selectedAirport # NoAirport /\ newValue # selectedDisplay
                 THEN [s1 EXCEPT !.selectedAirport = NoAirport] ELSE s1
           s3 == IF Len(Trim(newValue)) >= 2 THEN s2
                 ELSE [s2 EXCEPT !.isOpen = FALSE, !.suggestions = << >>,
                                 !.selectedAirport = NoAirport]
       IN input' = RunEffect(s3)
    /\ InputFrame

\* handleSelectAirport: the user picks suggestion i of the open dropdown.
handleSelectAirport(i) ==
    /\ input.mounted
    /\ input.isOpen
    /\ i \in 1..Len(input.suggestions)
    /\ LET airport == input.suggestions[i]
           s1 == useDebounce(input, formatAirportDisplay(airport))
       IN input' = RunEffect([s1 EXCEPT !.selectedAirport = airport, !.isOpen = FALSE,
                                         !.suggestions = << >>])
    /\ InputFrame

\* Time passes while the timer of useDebounce is pending.
TimePasses ==
    /\ input.pending
    /\ input.elapsed < DEBOUNCE_DELAY
    /\ input' = [input EXCEPT !.elapsed = @ + StepMs]
    /\ InputFrame

\* The timer of useDebounce fires: the debounced value becomes the value, and
\* when that changes it the component renders and the effect runs.
DebounceFires ==
    /\ input.pending
    /\ input.elapsed = DEBOUNCE_DELAY
    /\ LET s1 == [input EXCEPT !.pending = FALSE, !.debouncedValue = input.value]
       IN input' = IF input.debouncedValue = input.value THEN s1 ELSE RunEffect(s1)
    /\ InputFrame

\* The searchAirport call at place k of the calls in flight resolves.  A
\* search cancelled meanwhile only clears isLoading.  The render that
\* setIsLoading(true) causes runs the cleanup too, so the result counts only
\* when it arrives before that render (dropped = FALSE).  The state updates
\* make the component, when mounted, render and run the effect.
SearchSettles(k, results, dropped) ==
    /\ k \in 1..Len(input.inflight)
    /\ LET search == input.inflight[k]
           done == [input EXCEPT !.inflight = SubSeq(@, 1, k - 1) \o SubSeq(@, k + 1, Len(@)),
                                 !.isLoading = FALSE]
           apt == AutoSelected(results, search.query)
           stored == IF apt # NoAirport
                     THEN [done EXCEPT !.suggestions = results, !.appliedId = search.id,
                                       !.selectedAirport = apt, !.isOpen = FALSE]
                     ELSE [done EXCEPT !.suggestions = results, !.appliedId = search.id,
                                       !.isOpen = TRUE]
           next == IF \/ search.cancelled
                      \/ dropped /\ searchAbort(input).inflight[k].cancelled
                   THEN done ELSE stored
       IN input' = IF input.mounted THEN RunEffect(next) ELSE next
    /\ InputFrame

\* The form leaves the page: the timer of useDebounce is cleared and the
\* cleanup of the effect runs.
Unmount ==
    /\ input.mounted
    /\ input' = [searchAbort(input) EXCEPT !.mounted = FALSE, !.pending = FALSE]
    /\ InputFrame

NextInput ==
    \/ \E newValue \in InputTexts : handleInputChange(newValue)
    \/ \E i \in 1..2 : handleSelectAirport(i)
    \/ TimePasses
    \/ DebounceFires
    \/ \E k \in 1..MaxKeys, results \in AirportResults, dropped \in BOOLEAN :
         SearchSettles(k, results, dropped)
    \/ Unmount

SpecInput == Init /\ [][NextInput]_vars

\* C16: keystrokes trigger no airport search until the input has been
\* unchanged for 500 ms, and the search then requested is the one request of
\* the burst, for the final value: a step requests a search only when it is
\* the timer firing after 500 ms without a change, it requests one, and the
\* query is the trimmed value of the input.
C16_SearchOnlyAfterQuiet ==
    [][input'.searches # input.searches =>
         /\ input.pending /\ input.elapsed = DEBOUNCE_DELAY
         /\ input'.value = input.value
         /\ input'.searches = Append(input.searches, Trim(input.value))]_vars

(***************************************************************************)
(* FairSpecInput: the input with the progress the runtime provides: time   *)
(* passes, a due timer fires and a request in flight is answered.  The     *)
(* user's keystrokes, selections and leaving the page are not forced.      *)
(***************************************************************************)
InputProgress ==
    \/ TimePasses
    \/ DebounceFires
    \/ \E k \in 1..MaxKeys, results \in AirportResults, dropped \in BOOLEAN :
         SearchSettles(k, results, dropped)

FairSpecInput == Init /\ [][NextInput]_vars /\ WF_vars(InputProgress)

\* The query whose results were stored last.
ShownFor(s) == IF s.appliedId = 0 THEN "" ELSE s.searches[s.appliedId]

\* The texts of at least 2 characters the user types.
AirportQueries == { v \in InputTexts : Len(Trim(v)) >= 2 }

\* C26: when the user has typed an airport query of at least 2 characters
\* and then neither types nor selects anything nor leaves the page, the
\* results of the airport search for that value eventually become the
\* suggestions (or the airport the value names is selected from them),
\* however the renders of the component interleave with the request.
C26_ResultsEventuallyShown ==
    \A v \in AirportQueries :
        (input.mounted /\ input.value = v /\ input.selectedAirport = NoAirport)
            ~> \/ input.value # v
               \/ ~input.mounted
               \/ input.selectedAirport # NoAirport
               \/ ShownFor(input) = Trim(v)

\* C29: the response of an airport search is stored (as suggestions, with or
\* without an automatic selection) only while the input is mounted, only
\* when it is the response to the search issued last, and only when that
\* search asked for the current debounced value: a response for an earlier
\* query never changes the suggestion state.
C29_OnlyLatestResponseStored ==
    [][input'.appliedId # input.appliedId =>
         /\ input.mounted
         /\ input'.appliedId = Len(input.searches)
         /\ input.searches[input'.appliedId] = Trim(input.debouncedValue)]_vars

\* A search for an earlier query is still in flight, cancelled, after the
\* results of a later one have been stored.
C29_Witness ==
    /\ input.appliedId = 2
    /\ input.suggestions # << >>
    /\ \E k \in 1..Len(input.inflight) :
         /\ input.inflight[k].id = 1
         /\ input.inflight[k].cancelled
         /\ input.inflight[k].query # input.searches[2]

(***************************************************************************)
(* context/AppStatusContext.tsx: the provider's mount effect, which in     *)
(* production starts a health check and an interval of 30 minutes, and     *)
(* services/flightApi.ts checkServer.                                      *)
(*   inflight   the refreshHealth calls whose checkServer has not resolved *)
(*   checks     the checkServer calls made so far, counted up to a bound   *)
(***************************************************************************)
MaxStatusChecks == 6
MaxChecksInFlight == 3

\* How the request of checkServer ends: a 2xx response, a 429, any other error.
CheckOutcomes == { "ok", "rate-limit", "error" }

\* The HealthStatus checkServer resolves with (its timestamp left out).
checkServer(outcome) ==
    IF RAPID_API_KEY = ""
    THEN [isOnline |-> FALSE, message |-> "API key not configured"]
    ELSE IF outcome = "ok"
         THEN [isOnline |-> TRUE, message |-> "Server is online"]
         ELSE IF outcome = "rate-limit"
              THEN [isOnline |-> FALSE, message |-> MSG_RATE_LIMITED]
              ELSE [isOnline |-> TRUE, message |-> "API slow or unavailable, using mock data"]

\* The test of the interval callback: offline with a rate-limit message.
SkipsCheck(currentHealth) ==
    /\ currentHealth.isOnline = FALSE
    /\ currentHealth.message # ""
    /\ \/ Includes(currentHealth.message, "Rate limit exceeded")
       \/ Includes(currentHealth.message, "429")

\* refreshHealth() up to its await of checkServer.
refreshHealth(s) ==
    [s EXCEPT !.inflight = @ + 1, !.checks = Min(@ + 1, MaxStatusChecks)]

StatusFrame ==
    UNCHANGED <<RAPID_API_KEY, mockModule, calls, order, ctxVars, healthVars, input, resultsPage>>

\* The mount effect of AppStatusProvider, in a production or a development build.
MountStatus(prod) ==
    /\ ~appStatus.mounted
    /\ appStatus' =
         IF ~prod
         THEN [appStatus EXCEPT !.mounted = TRUE, !.prod = FALSE,
                                !.health = [isOnline |-> TRUE,
                                            message |-> "Development mode - health checks disabled"]]
         ELSE refreshHealth([appStatus EXCEPT !.mounted = TRUE, !.prod = TRUE])
    /\ StatusFrame

\* checkServer resolves and refreshHealth stores the status.
CheckServerSettles(outcome) ==
    /\ appStatus.inflight > 0
    /\ appStatus' = [appStatus EXCEPT !.inflight = @ - 1, !.health = checkServer(outcome)]
    /\ StatusFrame

\* The interval callback, every 30 minutes in production: a skipped check
\* leaves the state as it is.
IntervalTick ==
    /\ appStatus.mounted /\ appStatus.prod
    /\ IF SkipsCheck(appStatus.health)
       THEN appStatus' = appStatus
       ELSE /\ appStatus.inflight < MaxChecksInFlight
            /\ appStatus' = refreshHealth(appStatus)
    /\ StatusFrame

NextStatus ==
    \/ \E prod \in BOOLEAN : MountStatus(prod)
    \/ \E outcome \in CheckOutcomes : CheckServerSettles(outcome)
    \/ IntervalTick

\* The interval keeps firing and a health check request is answered.
FairSpecStatus ==
    /\ Init /\ [][NextStatus]_vars
    /\ WF_vars(IntervalTick)
    /\ WF_vars(\E outcome \in CheckOutcomes : CheckServerSettles(outcome))

\* C25: skipping a periodic check because the status is offline due to a
\* rate limit is a temporary wait: once the status is rate-limited offline,
\* some later tick of the interval performs a health check again.
C25_RateLimitPauseEnds ==
    \A n \in 0..(MaxStatusChecks - 1) :
        (SkipsCheck(appStatus.health) /\ appStatus.inflight = 0 /\ appStatus.checks = n)
            ~> (appStatus.checks > n)

====
